---- MODULE Spec2Model ----
(***************************************************************************)
(* esi-leap: the interval-reservation engine.  Offers, leases and owner    *)
(* changes are rows of three tables; the db api (db/sqlalchemy/api.py)     *)
(* queries and mutates them, the offers controller                         *)
(* (api/controllers/v1/offer.py) drives it.                                *)
(***************************************************************************)
EXTENDS Integers, Sequences, FiniteSets, TLC

\* ------------------------------------------------------------------ bounds
MaxTime == 3
MaxOffers == 2
MaxLeases == 2
MaxOwnerChanges == 1
MaxCheckRows == 2

Time == 0..MaxTime

\* ---------------------------------------------------------------- statuses
AVAILABLE == "available"
CANCELLED == "cancelled"
EXPIRED == "expired"
CREATED == "created"
ACTIVE == "active"

OfferStatuses == {AVAILABLE, CANCELLED, EXPIRED}
LeaseStatuses == {CREATED, ACTIVE, CANCELLED, EXPIRED}
OwnerChangeStatuses == {CREATED, ACTIVE, CANCELLED}

\* ------------------------------------------------- resources and projects
ResourceTypes == {"dummy_node", "ironic_node"}
ResourceUuids == {"1111", "2222"}
\* The resources requests are made for: two of one type, one of the other.
Resources == {<<"dummy_node", "1111">>, <<"dummy_node", "2222">>,
              <<"ironic_node", "1111">>}
Projects == {"owner1", "owner2"}

\* None for a status; NoUuid, the offer_uuid of a direct lease.
None == "None"
NoUuid == 0

VARIABLES
  offers,         \* rows of models.Offer
  leases,         \* rows of models.Lease
  owner_changes,  \* rows of models.OwnerChange
  ret,            \* the last call: its name, arguments and outcome
  procs,          \* the create requests in flight, one per thread
  locks           \* the resource locks that are held

vars == <<offers, leases, owner_changes, ret, procs, locks>>

\* The threads that run create requests, idle at first.
Procs == {"thread", "thread2"}
IdleProc == [pc |-> "idle"]

NoCall == [op |-> "none"]

\* -------------------------------------------------------------- the filter
\* The filter with its third clause (the candidate contains the row) lost.
conflict_filter_no_contains(start, end, r) ==
  \/ (start >= r.start_time /\ start < r.end_time)
  \/ (end > r.start_time /\ end <= r.end_time)

\* The three-clause time filter of the conflict queries: the candidate
\* [start, end) against the stored row r.
conflict_filter(start, end, r) ==
  \/ (start >= r.start_time /\ start < r.end_time)
  \/ (end > r.start_time /\ end <= r.end_time)
  \/ (start <= r.start_time /\ end >= r.end_time)

\* ------------------------------------------------------------------- rows
\* models.Offer() with values applied, as offer_create stores it.
OfferRow(uuid, project_id, r_type, r_uuid, start, end, status) ==
  [uuid |-> uuid, project_id |-> project_id,
   resource_type |-> r_type, resource_uuid |-> r_uuid,
   start_time |-> start, end_time |-> end, status |-> status]

\* models.Lease() with values applied; offer_uuid is NoUuid for a direct lease.
LeaseRow(uuid, offer_uuid, project_id, owner_id, r_type, r_uuid, start, end, status) ==
  [uuid |-> uuid, offer_uuid |-> offer_uuid, project_id |-> project_id,
   owner_id |-> owner_id,
   resource_type |-> r_type, resource_uuid |-> r_uuid,
   start_time |-> start, end_time |-> end, status |-> status]

\* models.OwnerChange() with values applied.
OwnerChangeRow(uuid, from_owner_id, to_owner_id, r_type, r_uuid, start, end, status) ==
  [uuid |-> uuid, from_owner_id |-> from_owner_id,
   to_owner_id |-> to_owner_id,
   resource_type |-> r_type, resource_uuid |-> r_uuid,
   start_time |-> start, end_time |-> end, status |-> status]

OfferUuids == 1..MaxOffers
LeaseUuids == 1..MaxLeases
OwnerChangeUuids == 1..MaxOwnerChanges

\* The owner changes stored where two of them meet.
MaxAdminChanges == 2
AdminUuids == 1..MaxAdminChanges

\* uuidutils.generate_uuid(): an identifier no stored row has.
generate_uuid(rows, ids) ==
  CHOOSE u \in ids : /\ \A r \in rows : r.uuid # u
                     /\ \A v \in ids : (\A r \in rows : r.uuid # v) => u <= v

\* query.filter_by(uuid=...).one_or_none(): the rows with that uuid, the
\* empty set standing for None.
offer_get_by_uuid(offer_uuid) == {o \in offers : o.uuid = offer_uuid}

lease_get_by_uuid(lease_uuid) == {l \in leases : l.uuid = lease_uuid}

owner_change_get_by_uuid(owner_change_uuid) ==
  {c \in owner_changes : c.uuid = owner_change_uuid}

\* ------------------------------------------------------- conflict checker
\* The offers query with its status filter lost.
rva_offers_any_status(r_type, r_uuid) ==
  {o \in offers : o.resource_uuid = r_uuid /\ o.resource_type = r_type}

\* The offers query of resource_verify_availability.
rva_offers(r_type, r_uuid) ==
  {o \in offers : /\ o.resource_uuid = r_uuid
                  /\ o.resource_type = r_type
                  /\ o.status = AVAILABLE}

\* The leases query with its resource filters lost.
rva_leases_any_resource(r_type, r_uuid) ==
  {l \in leases : l.status \in {CREATED, ACTIVE}}

\* The leases query of resource_verify_availability.
rva_leases(r_type, r_uuid) ==
  {l \in leases : /\ l.resource_uuid = r_uuid
                  /\ l.resource_type = r_type
                  /\ l.status \in {CREATED, ACTIVE}}

\* The owner changes query of resource_verify_availability.
rva_owner_changes(r_type, r_uuid) ==
  {c \in owner_changes : /\ c.resource_uuid = r_uuid
                         /\ c.resource_type = r_type
                         /\ c.status \in {CREATED, ACTIVE}}

\* offer_conflict, lease_conflict and oc_conflict: whether the filtered
\* query has a first row.
rva_offer_conflict(r_type, r_uuid, start, end) ==
  \E o \in rva_offers(r_type, r_uuid) : conflict_filter(start, end, o)

rva_lease_conflict(r_type, r_uuid, start, end) ==
  \E l \in rva_leases(r_type, r_uuid) : conflict_filter(start, end, l)

rva_oc_conflict(r_type, r_uuid, start, end) ==
  \E c \in rva_owner_changes(r_type, r_uuid) : conflict_filter(start, end, c)

\* The check without its lease query.
resource_verify_availability_no_leases(r_type, r_uuid, start, end, is_owner_change) ==
  IF rva_offer_conflict(r_type, r_uuid, start, end)
    THEN "ResourceTimeConflict"
  ELSE IF ~is_owner_change THEN "ok"
  ELSE IF rva_oc_conflict(r_type, r_uuid, start, end)
    THEN "ResourceTimeConflict"
  ELSE "ok"

\* resource_verify_availability with the owner changes checked whatever
\* the flag says.
resource_verify_availability_always_oc(r_type, r_uuid, start, end, is_owner_change) ==
  IF rva_offer_conflict(r_type, r_uuid, start, end)
    THEN "ResourceTimeConflict"
  ELSE IF rva_lease_conflict(r_type, r_uuid, start, end)
    THEN "ResourceTimeConflict"
  ELSE IF rva_oc_conflict(r_type, r_uuid, start, end)
    THEN "ResourceTimeConflict"
  ELSE "ok"

\* resource_verify_availability: "ok" for a normal return, else the
\* exception raised.
resource_verify_availability(r_type, r_uuid, start, end, is_owner_change) ==
  IF rva_offer_conflict(r_type, r_uuid, start, end)
    THEN "ResourceTimeConflict"
  ELSE IF rva_lease_conflict(r_type, r_uuid, start, end)
    THEN "ResourceTimeConflict"
  ELSE IF ~is_owner_change
    THEN "ok"
  ELSE IF rva_oc_conflict(r_type, r_uuid, start, end)
    THEN "ResourceTimeConflict"
  ELSE "ok"

\* offer_verify_availability without the bounds check of its first lines.
offer_verify_availability_no_bounds(offer_ref, start, end) ==
  IF \E l \in leases : /\ l.offer_uuid = offer_ref.uuid
                       /\ l.status \in {CREATED, ACTIVE}
                       /\ conflict_filter(start, end, l)
    THEN "OfferNoTimeAvailabilities"
  ELSE "ok"

\* offer_verify_availability with the offer_uuid filter of its leases query
\* lost.
offer_verify_availability_any_offer(offer_ref, start, end) ==
  IF start < offer_ref.start_time \/ end > offer_ref.end_time
    THEN "OfferNoTimeAvailabilities"
  ELSE IF \E l \in leases : /\ l.status \in {CREATED, ACTIVE}
                            /\ conflict_filter(start, end, l)
    THEN "OfferNoTimeAvailabilities"
  ELSE "ok"

\* offer_verify_availability: "ok" for a normal return, else the exception.
offer_verify_availability(offer_ref, start, end) ==
  IF start < offer_ref.start_time \/ end > offer_ref.end_time
    THEN "OfferNoTimeAvailabilities"
  ELSE IF \E l \in leases : /\ l.offer_uuid = offer_ref.uuid
                            /\ l.status \in {CREATED, ACTIVE}
                            /\ conflict_filter(start, end, l)
    THEN "OfferNoTimeAvailabilities"
  ELSE "ok"

\* ----------------------------------------------------- administration
\* The straddle filter with its third clause (the window contains the
\* change) lost.
straddle_filter_no_contains(start_time, end_time, c) ==
  \/ (start_time >= c.start_time /\ start_time < c.end_time
      /\ end_time > c.end_time)
  \/ (start_time < c.start_time /\ end_time > c.start_time
      /\ end_time < c.end_time)

\* The straddle filter of resource_check_admin.
straddle_filter(start_time, end_time, c) ==
  \/ (start_time >= c.start_time /\ start_time < c.end_time
      /\ end_time > c.end_time)
  \/ (start_time < c.start_time /\ end_time > c.start_time
      /\ end_time < c.end_time)
  \/ (start_time <= c.start_time /\ end_time >= c.end_time)

\* owner_change_get_all with its time filter turned round: the changes the
\* window contains.
owner_change_get_all_within(r_type, r_uuid, start, end, status) ==
  {c \in owner_changes : /\ c.resource_type = r_type
                         /\ c.resource_uuid = r_uuid
                         /\ c.status \in status
                         /\ start <= c.start_time
                         /\ end >= c.end_time}

\* owner_change_get_all with its status filter lost.
owner_change_get_all_any_status(r_type, r_uuid, start, end, status) ==
  {c \in owner_changes : /\ c.resource_type = r_type
                         /\ c.resource_uuid = r_uuid
                         /\ start >= c.start_time
                         /\ end <= c.end_time}

\* owner_change_get_all with the filters resource_check_admin passes:
\* resource_type, resource_uuid, start_time, end_time and status.
owner_change_get_all(r_type, r_uuid, start, end, status) ==
  {c \in owner_changes : /\ c.resource_type = r_type
                         /\ c.resource_uuid = r_uuid
                         /\ c.status \in status
                         /\ start >= c.start_time
                         /\ end <= c.end_time}

\* resource_check_admin without its count() > 1 branch: one of the changes
\* found decides.
resource_check_admin_first_change(r_type, r_uuid, start_time, end_time, default_admin_project_id, project_id) ==
  LET ocs_conflicts ==
        {c \in owner_changes : /\ c.resource_uuid = r_uuid
                               /\ c.resource_type = r_type
                               /\ c.status \in {CREATED, ACTIVE}
                               /\ straddle_filter(start_time, end_time, c)}
      ocs == owner_change_get_all(r_type, r_uuid, start_time, end_time,
                                  {CREATED, ACTIVE})
  IN IF Cardinality(ocs_conflicts) > 0 THEN FALSE
     ELSE IF Cardinality(ocs) >= 1
       THEN project_id = (CHOOSE c \in ocs : TRUE).to_owner_id
     ELSE project_id = default_admin_project_id

\* resource_check_admin with the change found accepting both of its owners.
resource_check_admin_from_or_to(r_type, r_uuid, start_time, end_time, default_admin_project_id, project_id) ==
  LET ocs_conflicts ==
        {c \in owner_changes : /\ c.resource_uuid = r_uuid
                               /\ c.resource_type = r_type
                               /\ c.status \in {CREATED, ACTIVE}
                               /\ straddle_filter(start_time, end_time, c)}
      ocs == owner_change_get_all(r_type, r_uuid, start_time, end_time,
                                  {CREATED, ACTIVE})
  IN IF Cardinality(ocs_conflicts) > 0 THEN FALSE
     ELSE IF Cardinality(ocs) > 1 THEN FALSE
     ELSE IF Cardinality(ocs) = 1
       THEN project_id \in {(CHOOSE c \in ocs : TRUE).to_owner_id,
                            (CHOOSE c \in ocs : TRUE).from_owner_id}
     ELSE project_id = default_admin_project_id

\* resource_check_admin: the boolean it returns.
resource_check_admin(r_type, r_uuid, start_time, end_time, default_admin_project_id, project_id) ==
  LET ocs_conflicts ==
        {c \in owner_changes : /\ c.resource_uuid = r_uuid
                               /\ c.resource_type = r_type
                               /\ c.status \in {CREATED, ACTIVE}
                               /\ straddle_filter(start_time, end_time, c)}
      ocs == owner_change_get_all(r_type, r_uuid, start_time, end_time,
                                  {CREATED, ACTIVE})
  IN IF Cardinality(ocs_conflicts) > 0 THEN FALSE
     ELSE IF Cardinality(ocs) > 1 THEN FALSE
     ELSE IF Cardinality(ocs) = 1
       THEN project_id = (CHOOSE c \in ocs : TRUE).to_owner_id
     ELSE project_id = default_admin_project_id

\* The project_owner_id property of the node: the default administrator.
get_node_project_owner_id(r_uuid) ==
  IF r_uuid = "1111" THEN "owner1" ELSE "owner2"

\* ----------------------------------------------------------- db api: create
\* offer_create(values): the row is added as given, nothing is validated.
offer_create(values) ==
  /\ offers' = offers \cup {values}
  /\ ret' = [op |-> "offer_create", uuid |-> values.uuid, result |-> "ok"]
  /\ UNCHANGED <<leases, owner_changes, procs, locks>>

\* lease_create(values)
lease_create(values) ==
  /\ leases' = leases \cup {values}
  /\ ret' = [op |-> "lease_create", uuid |-> values.uuid, result |-> "ok"]
  /\ UNCHANGED <<offers, owner_changes, procs, locks>>

\* owner_change_create(values)
owner_change_create(values) ==
  /\ owner_changes' = owner_changes \cup {values}
  /\ ret' = [op |-> "owner_change_create", uuid |-> values.uuid,
             result |-> "ok"]
  /\ UNCHANGED <<offers, leases, procs, locks>>

\* ------------------------------------------------------- db api: the calls
\* A call of resource_verify_availability and what it returned or raised.
ResourceVerifyCall(r_type, r_uuid, start, end, is_owner_change) ==
  /\ ret' = [op |-> "resource_verify_availability",
             resource_type |-> r_type, resource_uuid |-> r_uuid,
             start_time |-> start, end_time |-> end,
             is_owner_change |-> is_owner_change,
             result |-> resource_verify_availability(
                          r_type, r_uuid, start, end, is_owner_change)]
  /\ UNCHANGED <<offers, leases, owner_changes, procs, locks>>

\* A call of offer_verify_availability on a stored offer.
OfferVerifyCall(offer_ref, start, end) ==
  /\ ret' = [op |-> "offer_verify_availability", offer |-> offer_ref,
             start_time |-> start, end_time |-> end,
             result |-> offer_verify_availability(offer_ref, start, end)]
  /\ UNCHANGED <<offers, leases, owner_changes, procs, locks>>

\* Intervals [start, end), the empty ones (start = end) included.
Intervals == {iv \in [start_time : Time, end_time : Time] :
                iv.start_time <= iv.end_time}

NonEmpty(iv) == iv.start_time < iv.end_time

\* The filter applied to two intervals, in both orders and to a alone.
OverlapCall ==
  \E a \in Intervals, b \in Intervals :
    /\ ret' = [op |-> "overlaps", a |-> a, b |-> b,
               ab |-> conflict_filter(a.start_time, a.end_time, b),
               ba |-> conflict_filter(b.start_time, b.end_time, a),
               aa |-> conflict_filter(a.start_time, a.end_time, a)]
    /\ UNCHANGED <<offers, leases, owner_changes, procs, locks>>

InitOverlap ==
  /\ offers = {}
  /\ leases = {}
  /\ owner_changes = {}
  /\ ret = NoCall
  /\ procs = [p \in Procs |-> IdleProc]
  /\ locks = {}

NextOverlap == OverlapCall

SpecOverlap == InitOverlap /\ [][NextOverlap]_vars

\* The standard half-open intersection test.
Intersects(a, b) ==
  a.start_time < b.end_time /\ b.start_time < a.end_time

\* C4: the three-clause overlap predicate is symmetric for all intervals,
\* and every non-empty interval overlaps itself.
C4_OverlapSymmetric ==
  ret.op = "overlaps" =>
    /\ ret.ab = ret.ba
    /\ (NonEmpty(ret.a) => ret.aa)

\* C4 witness: two different non-empty intervals that overlap were compared.
C4_Witness ==
  /\ ret.op = "overlaps"
  /\ NonEmpty(ret.a) /\ NonEmpty(ret.b) /\ ret.a # ret.b
  /\ ret.ab /\ ret.ba /\ ret.aa

\* C5 as stated: for all intervals the three-clause test equals the
\* standard half-open intersection test.
C5_Original ==
  ret.op = "overlaps" => (ret.ab <=> Intersects(ret.a, ret.b))

\* C5 amended: for all non-empty intervals A and B the three-clause test
\* equals the standard half-open intersection test.
C5_EquivalentNonEmpty ==
  (ret.op = "overlaps" /\ NonEmpty(ret.a) /\ NonEmpty(ret.b)) =>
    (ret.ab <=> Intersects(ret.a, ret.b))

\* C5 witness: non-empty intervals, one strictly containing the other,
\* found overlapping by both tests.
C5_Witness ==
  /\ ret.op = "overlaps"
  /\ NonEmpty(ret.a) /\ NonEmpty(ret.b)
  /\ ret.a.start_time < ret.b.start_time /\ ret.b.end_time < ret.a.end_time
  /\ ret.ab /\ Intersects(ret.a, ret.b)

\* ------------------------------------------------- the conflict checker
\* The rows the db api is given in this specification: valid windows, every
\* resource, blocking and non-blocking statuses.
Windows == {iv \in Intervals : NonEmpty(iv)}

CheckOfferValues ==
  {OfferRow(generate_uuid(offers, OfferUuids), "owner1", r[1], r[2],
            w.start_time, w.end_time, st) :
     r \in Resources, w \in Windows, st \in {AVAILABLE, CANCELLED}}

\* A lease claimed from an offer is on the offer's resource.
CheckLeaseOrigins ==
  {<<NoUuid, r>> : r \in Resources}
    \cup {<<o.uuid, <<o.resource_type, o.resource_uuid>>>> : o \in offers}

CheckLeaseValues ==
  {LeaseRow(generate_uuid(leases, LeaseUuids), og[1], "owner2", "owner1",
            og[2][1], og[2][2], w.start_time, w.end_time, st) :
     og \in CheckLeaseOrigins, w \in Windows,
     st \in {CREATED, ACTIVE, CANCELLED}}

\* The resource the calls of this specification ask about.
CheckResource == <<"dummy_node", "1111">>

CheckRows ==
  Cardinality(offers) + Cardinality(leases) + Cardinality(owner_changes)

CheckOwnerChangeValues ==
  {OwnerChangeRow(generate_uuid(owner_changes, OwnerChangeUuids),
                  "owner1", "owner2", r[1], r[2],
                  w.start_time, w.end_time, st) :
     r \in Resources, w \in Windows, st \in {CREATED, CANCELLED}}

CheckOfferCreate ==
  /\ CheckRows < MaxCheckRows
  /\ Cardinality(offers) < MaxOffers
  /\ \E values \in CheckOfferValues : offer_create(values)

CheckLeaseCreate ==
  /\ CheckRows < MaxCheckRows
  /\ Cardinality(leases) < MaxLeases
  /\ \E values \in CheckLeaseValues : lease_create(values)

CheckOwnerChangeCreate ==
  /\ CheckRows < MaxCheckRows
  /\ Cardinality(owner_changes) < MaxOwnerChanges
  /\ \E values \in CheckOwnerChangeValues : owner_change_create(values)

CheckResourceVerify ==
  \E iv \in Intervals, is_owner_change \in BOOLEAN :
    ResourceVerifyCall(CheckResource[1], CheckResource[2],
                       iv.start_time, iv.end_time, is_owner_change)

CheckOfferVerify ==
  \E o \in offers, iv \in Intervals :
    OfferVerifyCall(o, iv.start_time, iv.end_time)

InitCheck ==
  /\ offers = {}
  /\ leases = {}
  /\ owner_changes = {}
  /\ ret = NoCall
  /\ procs = [p \in Procs |-> IdleProc]
  /\ locks = {}

NextCheck ==
  \/ CheckOfferCreate
  \/ CheckLeaseCreate
  \/ CheckOwnerChangeCreate
  \/ CheckResourceVerify
  \/ CheckOfferVerify

SpecCheck == InitCheck /\ [][NextCheck]_vars

\* The overlap of section 4.1 of the design: A starts inside B, or A ends
\* inside B, or A contains B.
Overlaps(a_start, a_end, b) ==
  \/ (a_start >= b.start_time /\ a_start < b.end_time)
  \/ (a_end > b.start_time /\ a_end <= b.end_time)
  \/ (a_start <= b.start_time /\ a_end >= b.end_time)

\* [start, end) and the row r have an instant in common.
SharesInstant(start, end, r) ==
  \E t \in Time : start <= t /\ t < end /\ r.start_time <= t /\ t < r.end_time

\* [start, end) ends where r starts, or starts where r ends.
OnlyTouches(start, end, r) ==
  end = r.start_time \/ start = r.end_time

OnResource(r, r_type, r_uuid) ==
  r.resource_type = r_type /\ r.resource_uuid = r_uuid

\* The reservations that block a window on a resource.
BlockingOffers(r_type, r_uuid) ==
  {o \in offers : OnResource(o, r_type, r_uuid) /\ o.status = AVAILABLE}

BlockingLeases(r_type, r_uuid) ==
  {l \in leases : OnResource(l, r_type, r_uuid)
                    /\ l.status \in {CREATED, ACTIVE}}

BlockingOwnerChanges(r_type, r_uuid) ==
  {c \in owner_changes : OnResource(c, r_type, r_uuid)
                           /\ c.status \in {CREATED, ACTIVE}}

\* The populations a call of resource_verify_availability has to clear.
Population(call) ==
  BlockingOffers(call.resource_type, call.resource_uuid)
    \cup BlockingLeases(call.resource_type, call.resource_uuid)
    \cup (IF call.is_owner_change
            THEN BlockingOwnerChanges(call.resource_type, call.resource_uuid)
            ELSE {})

\* The created and active leases of an offer.
SiblingLeases(offer_ref) ==
  {l \in leases : l.offer_uuid = offer_ref.uuid
                    /\ l.status \in {CREATED, ACTIVE}}

IsRva == ret.op = "resource_verify_availability"
IsOva == ret.op = "offer_verify_availability"
InsideOffer(call) ==
  /\ call.offer.start_time <= call.start_time
  /\ call.end_time <= call.offer.end_time

\* C6: a non-empty candidate window that only touches the existing
\* reservations is no conflict for resource_verify_availability and
\* offer_verify_availability; one that shares an instant with an existing
\* reservation is a conflict.
C6_TouchIsNoConflict ==
  /\ (IsRva /\ ret.start_time < ret.end_time) =>
       /\ (\E r \in Population(ret) :
             SharesInstant(ret.start_time, ret.end_time, r))
            => ret.result = "ResourceTimeConflict"
       /\ (\A r \in Population(ret) :
             OnlyTouches(ret.start_time, ret.end_time, r))
            => ret.result = "ok"
  /\ (IsOva /\ ret.start_time < ret.end_time /\ InsideOffer(ret)) =>
       /\ (\E l \in SiblingLeases(ret.offer) :
             SharesInstant(ret.start_time, ret.end_time, l))
            => ret.result = "OfferNoTimeAvailabilities"
       /\ (\A l \in SiblingLeases(ret.offer) :
             OnlyTouches(ret.start_time, ret.end_time, l))
            => ret.result = "ok"

\* C6 witness: a window that ends where an available offer of the resource
\* starts was checked and passed.
C6_Witness ==
  /\ IsRva /\ ret.start_time < ret.end_time /\ ret.result = "ok"
  /\ \E o \in BlockingOffers(ret.resource_type, ret.resource_uuid) :
       ret.end_time = o.start_time

\* C7: resource_verify_availability raises ResourceTimeConflict exactly when
\* an available offer, a created or active lease or (for an owner change) a
\* created or active owner change of that resource overlaps the window.
C7_ConflictIffBlockingOverlap ==
  IsRva =>
    (ret.result = "ResourceTimeConflict"
       <=> \E r \in Population(ret) :
             Overlaps(ret.start_time, ret.end_time, r))

\* C7 witness: the offers of the resource were clear, a lease was not.
C7_Witness ==
  /\ IsRva /\ ret.result = "ResourceTimeConflict" /\ ~ret.is_owner_change
  /\ BlockingOffers(ret.resource_type, ret.resource_uuid) # {}
  /\ \A o \in BlockingOffers(ret.resource_type, ret.resource_uuid) :
       ~Overlaps(ret.start_time, ret.end_time, o)
  /\ \E l \in BlockingLeases(ret.resource_type, ret.resource_uuid) :
       Overlaps(ret.start_time, ret.end_time, l)

OwnerChangeOverlaps(call) ==
  \E c \in BlockingOwnerChanges(call.resource_type, call.resource_uuid) :
    Overlaps(call.start_time, call.end_time, c)

OfferOrLeaseOverlaps(call) ==
  \E r \in BlockingOffers(call.resource_type, call.resource_uuid)
             \cup BlockingLeases(call.resource_type, call.resource_uuid) :
    Overlaps(call.start_time, call.end_time, r)

\* C8: an overlapping created or active owner change makes
\* resource_verify_availability raise only when is_owner_change is true.
C8_OwnerChangeOnlyWithFlag ==
  (IsRva /\ OwnerChangeOverlaps(ret) /\ ~OfferOrLeaseOverlaps(ret)) =>
    (ret.result = "ResourceTimeConflict" <=> ret.is_owner_change)

\* C8 witness: an owner change overlapped the window of a call made with
\* is_owner_change false, and the call passed.
C8_Witness ==
  /\ IsRva /\ OwnerChangeOverlaps(ret) /\ ~ret.is_owner_change
  /\ ret.result = "ok"

\* C10: offer_verify_availability raises OfferNoTimeAvailabilities whenever
\* the window is not inside the offer's window.
C10_OutsideOfferRaises ==
  (IsOva /\ ~InsideOffer(ret)) => ret.result = "OfferNoTimeAvailabilities"

\* C10 witness: a non-empty window reaching past the end of an offer that
\* has no lease at all was refused.
C10_Witness ==
  /\ IsOva /\ ret.start_time < ret.end_time
  /\ ret.offer.start_time <= ret.start_time
  /\ ret.end_time > ret.offer.end_time
  /\ \A l \in leases : l.offer_uuid # ret.offer.uuid
  /\ ret.result = "OfferNoTimeAvailabilities"

\* ------------------------------------------------ db api: update, destroy
\* The values of an update: a time or a status the caller leaves out is
\* NoTime or None; another key is supplied when the record has it.
NoTime == 0 - 1

\* start and end as offer_update, lease_update and owner_change_update
\* resolve them: the supplied value, else the stored one.
effective_start(ref, values) ==
  IF values.start_time = NoTime THEN ref.start_time ELSE values.start_time

\* The effective end of an update with the stored value always taken.
effective_end_stored(ref, values) == ref.end_time

effective_end(ref, values) ==
  IF values.end_time = NoTime THEN ref.end_time ELSE values.end_time

\* What an update does with the rows found for the uuid: with no row, the
\* first use of the None reference raises AttributeError, unless both times
\* are supplied and fail the comparison before that.
update_result(refs, values) ==
  IF refs = {}
    THEN IF values.start_time # NoTime /\ values.end_time # NoTime
              /\ values.start_time >= values.end_time
           THEN "InvalidTimeRange"
           ELSE "AttributeError"
  ELSE LET ref == CHOOSE r \in refs : TRUE
       IN IF effective_start(ref, values) >= effective_end(ref, values)
            THEN "InvalidTimeRange"
            ELSE "ok"

\* The value that stands for a key the caller did not supply.
Absent(k) ==
  IF k = "uuid" THEN NoUuid
  ELSE IF k \in {"start_time", "end_time"} THEN NoTime
  ELSE None

\* values.pop(key, None) without the pops: the values as supplied.
pop_nothing(values, keys) == values

\* values.pop(key, None) for each of the keys.
pop(values, keys) == [k \in DOMAIN values \ keys |-> values[k]]

\* ref.update(values): every column the values supply is stored, the other
\* columns stay.
row_update(ref, values) ==
  [k \in DOMAIN ref |->
     IF k \in DOMAIN values /\ values[k] # Absent(k) THEN values[k] ELSE ref[k]]

\* The table after an update that reaches every row, whatever its uuid.
rows_update_every_row(rows, uuid, values) ==
  IF update_result({r \in rows : r.uuid = uuid}, values) = "ok"
    THEN {row_update(r, values) : r \in rows}
    ELSE rows

\* The table after an update of the row with that uuid.
rows_update(rows, uuid, values) ==
  IF update_result({r \in rows : r.uuid = uuid}, values) = "ok"
    THEN {IF r.uuid = uuid THEN row_update(r, values) ELSE r : r \in rows}
    ELSE rows

offer_update(offer_uuid, values) ==
  /\ offers' = rows_update(offers, offer_uuid, pop(values, {"uuid", "project_id"}))
  /\ ret' = [op |-> "offer_update", uuid |-> offer_uuid, values |-> values,
             result |-> update_result(offer_get_by_uuid(offer_uuid), values)]
  /\ UNCHANGED <<leases, owner_changes, procs, locks>>

lease_update(lease_uuid, values) ==
  /\ leases' = rows_update(leases, lease_uuid, pop(values, {"uuid", "project_id"}))
  /\ ret' = [op |-> "lease_update", uuid |-> lease_uuid, values |-> values,
             result |-> update_result(lease_get_by_uuid(lease_uuid), values)]
  /\ UNCHANGED <<offers, owner_changes, procs, locks>>

owner_change_update(owner_change_uuid, values) ==
  /\ owner_changes' = rows_update(owner_changes, owner_change_uuid, pop(values, {"uuid", "from_owner_id", "to_owner_id", "resource_type", "resource_uuid"}))
  /\ ret' = [op |-> "owner_change_update", uuid |-> owner_change_uuid,
             values |-> values,
             result |-> update_result(
                          owner_change_get_by_uuid(owner_change_uuid), values)]
  /\ UNCHANGED <<offers, leases, procs, locks>>

\* offer_destroy: the delete runs on a query filtered by the uuid.
offer_destroy(offer_uuid) ==
  /\ offers' = IF offer_get_by_uuid(offer_uuid) = {} THEN offers
               ELSE {o \in offers : o.uuid # offer_uuid}
  /\ ret' = [op |-> "offer_destroy", uuid |-> offer_uuid,
             result |-> IF offer_get_by_uuid(offer_uuid) = {}
                          THEN "OfferNotFound" ELSE "ok"]
  /\ UNCHANGED <<leases, owner_changes, procs, locks>>

\* lease_destroy without the test of lease_ref: nothing is raised.
lease_destroy_unchecked(lease_uuid) ==
  /\ leases' = {}
  /\ ret' = [op |-> "lease_destroy", uuid |-> lease_uuid, result |-> "ok"]
  /\ UNCHANGED <<offers, owner_changes, procs, locks>>

\* lease_destroy: the delete runs on `query`, which filter_by did not
\* narrow: every lease goes.
lease_destroy(lease_uuid) ==
  /\ leases' = IF lease_get_by_uuid(lease_uuid) = {} THEN leases ELSE {}
  /\ ret' = [op |-> "lease_destroy", uuid |-> lease_uuid,
             result |-> IF lease_get_by_uuid(lease_uuid) = {}
                          THEN "LeaseNotFound" ELSE "ok"]
  /\ UNCHANGED <<offers, owner_changes, procs, locks>>

\* owner_change_destroy: as lease_destroy, the unfiltered query is deleted.
owner_change_destroy(owner_change_uuid) ==
  /\ owner_changes' = IF owner_change_get_by_uuid(owner_change_uuid) = {}
                        THEN owner_changes ELSE {}
  /\ ret' = [op |-> "owner_change_destroy", uuid |-> owner_change_uuid,
             result |-> IF owner_change_get_by_uuid(owner_change_uuid) = {}
                          THEN "OwnerChangeNotFound" ELSE "ok"]
  /\ UNCHANGED <<offers, leases, procs, locks>>

\* The values of a cancel: only the status.
StatusValues(status) ==
  [start_time |-> NoTime, end_time |-> NoTime, status |-> status]

\* OffersController.delete with the offer looked up in any status.
OfferDelete_any_status(offer_uuid) ==
  LET found == offer_get_by_uuid(offer_uuid)
  IN /\ offers' = IF found = {} THEN offers
                  ELSE rows_update(offers, offer_uuid, StatusValues(CANCELLED))
     /\ ret' = [op |-> "offer_delete", uuid |-> offer_uuid,
                result |-> IF found = {} THEN "OfferNotFound" ELSE "ok"]
     /\ UNCHANGED <<leases, owner_changes, procs, locks>>

\* OffersController.delete: the offer must be stored and available; cancel
\* stores the cancelled status, the row stays.
OfferDelete(offer_uuid) ==
  LET found == {o \in offer_get_by_uuid(offer_uuid) : o.status = AVAILABLE}
  IN /\ offers' = IF found = {} THEN offers
                  ELSE rows_update(offers, offer_uuid, StatusValues(CANCELLED))
     /\ ret' = [op |-> "offer_delete", uuid |-> offer_uuid,
                result |-> IF found = {} THEN "OfferNotFound" ELSE "ok"]
     /\ UNCHANGED <<leases, owner_changes, procs, locks>>

\* The cancel of a lease: a created or active lease gets the cancelled
\* status.
LeaseDelete(lease_uuid) ==
  LET found == {l \in lease_get_by_uuid(lease_uuid) :
                  l.status \in {CREATED, ACTIVE}}
  IN /\ leases' = IF found = {} THEN leases
                  ELSE rows_update(leases, lease_uuid, StatusValues(CANCELLED))
     /\ ret' = [op |-> "lease_delete", uuid |-> lease_uuid,
                result |-> IF found = {} THEN "LeaseNotFound" ELSE "ok"]
     /\ UNCHANGED <<offers, owner_changes, procs, locks>>

\* ------------------------------------- Offer.create and Lease.create threads
\* Two threads, as test_create_concurrent starts them, each taking the
\* steps of a create: the lock named after the resource, the time check,
\* resource_verify_availability, the insert, the release of the lock.
MaxCreateRows == 2

CreateKinds == {"offer", "lease"}
CreateResources == {<<"dummy_node", "1111">>, <<"dummy_node", "2222">>}

get_resource_lock_name(r_type, r_uuid) == <<r_type, r_uuid>>

\* The threads whose create has not returned yet.
InFlight == {p \in Procs : procs[p].pc # "idle"}

CreateRows == Cardinality(offers) + Cardinality(leases)

\* The row a thread inserts: a new available offer, or a new created lease
\* with no offer behind it.
CreateValues(req) ==
  IF req.kind = "offer"
    THEN OfferRow(generate_uuid(offers, OfferUuids),
                  IF "project_id" \in DOMAIN req THEN req.project_id
                  ELSE "owner1",
                  req.resource_type, req.resource_uuid,
                  req.start_time, req.end_time, AVAILABLE)
    ELSE LeaseRow(generate_uuid(leases, LeaseUuids), NoUuid, "owner2", "owner1",
                  req.resource_type, req.resource_uuid,
                  req.start_time, req.end_time, CREATED)

\* A thread is started on a create.
CreateBegin(p) ==
  /\ procs[p].pc = "idle"
  /\ CreateRows + Cardinality(InFlight) < MaxCreateRows
  /\ \E kind \in CreateKinds, r \in CreateResources, iv \in Intervals :
       procs' = [procs EXCEPT ![p] =
                   [pc |-> "begun", kind |-> kind,
                    resource_type |-> r[1], resource_uuid |-> r[2],
                    start_time |-> iv.start_time, end_time |-> iv.end_time]]
  /\ UNCHANGED <<offers, leases, owner_changes, ret, locks>>

\* The thread enters the lock of its resource, once no other thread holds
\* it.
CreateLock(p) ==
  /\ procs[p].pc = "begun"
  /\ get_resource_lock_name(procs[p].resource_type, procs[p].resource_uuid) \notin locks
  /\ locks' = locks \cup {get_resource_lock_name(procs[p].resource_type, procs[p].resource_uuid)}
  /\ procs' = [procs EXCEPT ![p].pc = "locked"]
  /\ UNCHANGED <<offers, leases, owner_changes, ret>>

\* What the checks of a create answer under the lock: the time check, then
\* resource_verify_availability with is_owner_change=False.
create_check(req) ==
  IF req.start_time >= req.end_time THEN "InvalidTimeRange"
  ELSE resource_verify_availability(req.resource_type, req.resource_uuid,
                                    req.start_time, req.end_time, FALSE)

\* The thread's record once its create is over.
Finished(req, result) ==
  [pc |-> "done", kind |-> req.kind,
   resource_type |-> req.resource_type, resource_uuid |-> req.resource_uuid,
   start_time |-> req.start_time, end_time |-> req.end_time,
   result |-> result]

\* The checks run; a raise leaves the lock.
CreateVerify(p) ==
  /\ procs[p].pc = "locked"
  /\ IF create_check(procs[p]) = "ok"
       THEN /\ procs' = [procs EXCEPT ![p].pc = "verified"]
            /\ UNCHANGED locks
       ELSE /\ procs' = [procs EXCEPT ![p] = Finished(procs[p], create_check(procs[p]))]
            /\ locks' = locks \ {get_resource_lock_name(procs[p].resource_type, procs[p].resource_uuid)}
  /\ UNCHANGED <<offers, leases, owner_changes, ret>>

\* The row is stored and the lock is kept.
CreatePersist_keeps_lock(p) ==
  /\ procs[p].pc = "verified"
  /\ IF procs[p].kind = "offer"
       THEN /\ offers' = offers \cup {CreateValues(procs[p])}
            /\ UNCHANGED leases
       ELSE /\ leases' = leases \cup {CreateValues(procs[p])}
            /\ UNCHANGED offers
  /\ procs' = [procs EXCEPT ![p] = Finished(procs[p], "created")]
  /\ UNCHANGED <<owner_changes, ret, locks>>

\* offer_create or lease_create stores the row, and the lock is left.
CreatePersist(p) ==
  /\ procs[p].pc = "verified"
  /\ IF procs[p].kind = "offer"
       THEN /\ offers' = offers \cup {CreateValues(procs[p])}
            /\ UNCHANGED leases
       ELSE /\ leases' = leases \cup {CreateValues(procs[p])}
            /\ UNCHANGED offers
  /\ procs' = [procs EXCEPT ![p] = Finished(procs[p], "created")]
  /\ locks' = locks \ {get_resource_lock_name(procs[p].resource_type, procs[p].resource_uuid)}
  /\ UNCHANGED <<owner_changes, ret>>

InitRace ==
  /\ offers = {}
  /\ leases = {}
  /\ owner_changes = {}
  /\ ret = NoCall
  /\ procs = [p \in Procs |-> IdleProc]
  /\ locks = {}

NextRace ==
  \E p \in Procs :
    \/ CreateBegin(p)
    \/ CreateLock(p)
    \/ CreateVerify(p)
    \/ CreatePersist(p)

SpecRace == InitRace /\ [][NextRace]_vars

\* ---------------------------------------------------------------- claim C1
Done(p) == procs[p].pc = "done"

SameResource(a, b) ==
  a.resource_type = b.resource_type /\ a.resource_uuid = b.resource_uuid

\* Both threads are over, and they asked for overlapping windows on one
\* resource.
RacedOnOverlap ==
  /\ Done("thread") /\ Done("thread2")
  /\ SameResource(procs["thread"], procs["thread2"])
  /\ NonEmpty(procs["thread"]) /\ NonEmpty(procs["thread2"])
  /\ Intersects(procs["thread"], procs["thread2"])

\* C1: when two creates for the same resource with overlapping windows run
\* concurrently, each checking with resource_verify_availability and then
\* persisting, in every interleaving exactly one persists its reservation and
\* the other fails with ResourceTimeConflict; both having persisted is never
\* reached.
C1_ExactlyOnePersists ==
  RacedOnOverlap =>
    /\ {procs["thread"].result, procs["thread2"].result}
         = {"created", "ResourceTimeConflict"}
    /\ Cardinality(offers) + Cardinality(leases) = 1

C1_Witness ==
  /\ RacedOnOverlap
  /\ procs["thread"].kind = "offer" /\ procs["thread2"].kind = "lease"
  /\ procs["thread"].result = "ResourceTimeConflict"
  /\ procs["thread2"].result = "created"
  /\ Cardinality(leases) = 1 /\ offers = {}

\* ------------------------------------------ creates, cancels and destroys
\* The thread's create has returned or raised; the thread is free for the
\* next one.
CreateReturn(p) ==
  /\ procs[p].pc = "done"
  /\ procs' = [procs EXCEPT ![p] = IdleProc]
  /\ UNCHANGED <<offers, leases, owner_changes, ret, locks>>

CreateOfferDelete == \E offer_uuid \in OfferUuids : OfferDelete(offer_uuid)

CreateLeaseDelete == \E lease_uuid \in LeaseUuids : LeaseDelete(lease_uuid)

CreateOfferDestroy == \E offer_uuid \in OfferUuids : offer_destroy(offer_uuid)

CreateLeaseDestroy == \E lease_uuid \in LeaseUuids : lease_destroy(lease_uuid)

InitCreate == InitRace

NextCreate ==
  \/ \E p \in Procs :
       \/ CreateBegin(p)
       \/ CreateLock(p)
       \/ CreateVerify(p)
       \/ CreatePersist(p)
       \/ CreateReturn(p)
  \/ CreateOfferDelete
  \/ CreateLeaseDelete
  \/ CreateOfferDestroy
  \/ CreateLeaseDestroy

SpecCreate == InitCreate /\ [][NextCreate]_vars

\* ---------------------------------------------------------------- claim C2
\* The reservations that hold a resource: available offers, created and
\* active leases.
Reservations ==
  {o \in offers : o.status = AVAILABLE}
    \cup {l \in leases : l.status \in {CREATED, ACTIVE}}

\* C2: in every state reached by offer creations and direct lease creations
\* that each pass resource_verify_availability before persisting, interleaved
\* with cancellations and destroys, no two distinct reservations among
\* available offers and created or active leases of the same resource have
\* overlapping [start, end) intervals.
C2_NoOverlappingReservations ==
  \A a \in Reservations, b \in Reservations :
    (a # b /\ SameResource(a, b)) => ~Intersects(a, b)

\* C2 witness: both threads have created, an offer and a direct lease that
\* hold the same resource back to back.
C2_Witness ==
  /\ Done("thread") /\ Done("thread2")
  /\ procs["thread"].result = "created" /\ procs["thread2"].result = "created"
  /\ \E o \in offers, l \in leases :
       /\ o.status = AVAILABLE /\ l.status = CREATED
       /\ SameResource(o, l)
       /\ o.end_time = l.start_time

\* ------------------------------------------------ the api, call after call
\* Requests served one after the other: OffersController.post and claim,
\* the create of an owner change, and the three updates of the db api.
MaxApiRows == 2

ApiRows ==
  Cardinality(offers) + Cardinality(leases) + Cardinality(owner_changes)

\* utils.check_resource_admin for a caller without the offer_admin rule:
\* resource_check_admin with the owner of the node as default administrator.
check_resource_admin(r_type, r_uuid, project_id, start_time, end_time) ==
  resource_check_admin(r_type, r_uuid, start_time, end_time,
                       get_node_project_owner_id(r_uuid), project_id)

\* What OffersController.post answers: its time check, the administrator
\* check, then the checks of Offer.create.
post_result(project_id, r_type, r_uuid, start, end) ==
  IF start >= end THEN "InvalidTimeRange"
  ELSE IF ~check_resource_admin(r_type, r_uuid, project_id, start, end)
    THEN "HTTPResourceForbidden"
  ELSE create_check([resource_type |-> r_type, resource_uuid |-> r_uuid,
                     start_time |-> start, end_time |-> end])

\* OffersController.post
OfferPost(project_id, r_type, r_uuid, start, end) ==
  /\ offers' = IF post_result(project_id, r_type, r_uuid, start, end) = "ok"
                 THEN offers \cup {OfferRow(generate_uuid(offers, OfferUuids),
                                            project_id, r_type, r_uuid,
                                            start, end, AVAILABLE)}
                 ELSE offers
  /\ ret' = [op |-> "offer_post", project_id |-> project_id,
             resource_type |-> r_type, resource_uuid |-> r_uuid,
             start_time |-> start, end_time |-> end,
             result |-> post_result(project_id, r_type, r_uuid, start, end)]
  /\ UNCHANGED <<leases, owner_changes, procs, locks>>

\* offer_get_first_availability: the start of the first created or active
\* lease of the offer, by start_time, that ends at or after start; NoTime
\* for None.
offer_get_first_availability(offer_uuid, start) ==
  LET starts == {l.start_time : l \in {m \in leases :
                                         /\ m.offer_uuid = offer_uuid
                                         /\ m.status \in {CREATED, ACTIVE}
                                         /\ m.end_time >= start}}
  IN IF starts = {} THEN NoTime
     ELSE CHOOSE t \in starts : \A u \in starts : t <= u

\* The end_time OffersController.claim gives the lease: the one asked for,
\* else the first availability's start, else the offer's end.
claim_end_time(offer_ref, start, end) ==
  IF end # NoTime THEN end
  ELSE IF offer_get_first_availability(offer_ref.uuid, start) = NoTime
    THEN offer_ref.end_time
  ELSE offer_get_first_availability(offer_ref.uuid, start)

\* What Lease.create answers for a lease of an offer: the time check, then
\* offer_verify_availability.
lease_create_check(offer_ref, start, end) ==
  IF start >= end THEN "InvalidTimeRange"
  ELSE offer_verify_availability(offer_ref, start, end)

\* What OffersController.claim answers: the offer has to be stored and
\* available.
claim_result(offer_uuid, start, end) ==
  LET found == {o \in offer_get_by_uuid(offer_uuid) : o.status = AVAILABLE}
  IN IF found = {} THEN "OfferNotFound"
     ELSE LET offer_ref == CHOOSE o \in found : TRUE
          IN lease_create_check(offer_ref, start,
                                claim_end_time(offer_ref, start, end))

\* OffersController.claim
OfferClaim(project_id, offer_uuid, start, end) ==
  /\ leases' =
       IF claim_result(offer_uuid, start, end) = "ok"
         THEN LET offer_ref == CHOOSE o \in offer_get_by_uuid(offer_uuid) : TRUE
              IN leases \cup
                   {LeaseRow(generate_uuid(leases, LeaseUuids), offer_uuid,
                             project_id, offer_ref.project_id,
                             offer_ref.resource_type, offer_ref.resource_uuid,
                             start, claim_end_time(offer_ref, start, end),
                             CREATED)}
         ELSE leases
  /\ ret' = [op |-> "offer_claim", project_id |-> project_id,
             offer_uuid |-> offer_uuid,
             start_time |-> start, end_time |-> end,
             result |-> claim_result(offer_uuid, start, end)]
  /\ UNCHANGED <<offers, owner_changes, procs, locks>>

\* What OwnerChange.create answers: the time check, then
\* resource_verify_availability with is_owner_change=True.
owner_change_create_check(r_type, r_uuid, start, end) ==
  IF start >= end THEN "InvalidTimeRange"
  ELSE resource_verify_availability(r_type, r_uuid, start, end, TRUE)

\* OwnerChange.create
OwnerChangeCreate(from_owner_id, to_owner_id, r_type, r_uuid, start, end) ==
  /\ owner_changes' =
       IF owner_change_create_check(r_type, r_uuid, start, end) = "ok"
         THEN owner_changes \cup
                {OwnerChangeRow(generate_uuid(owner_changes, AdminUuids),
                                from_owner_id, to_owner_id, r_type, r_uuid,
                                start, end, CREATED)}
         ELSE owner_changes
  /\ ret' = [op |-> "owner_change_post",
             resource_type |-> r_type, resource_uuid |-> r_uuid,
             start_time |-> start, end_time |-> end,
             result |-> owner_change_create_check(r_type, r_uuid, start, end)]
  /\ UNCHANGED <<offers, leases, procs, locks>>

\* The resource the requests of this specification are about.
ApiResource == <<"dummy_node", "1111">>

\* The values an update is called with.
UpdateValues ==
  [start_time : Time \cup {NoTime}, end_time : Time \cup {NoTime},
   status : {None}]

ApiOfferPost ==
  /\ ApiRows < MaxApiRows
  /\ Cardinality(offers) < MaxOffers
  /\ \E project_id \in Projects, start \in Time, end \in Time :
       OfferPost(project_id, ApiResource[1], ApiResource[2], start, end)

ApiOfferClaim ==
  /\ ApiRows < MaxApiRows
  /\ Cardinality(leases) < MaxLeases
  /\ \E offer_uuid \in OfferUuids, start \in Time, end \in Time \cup {NoTime} :
       OfferClaim("owner2", offer_uuid, start, end)

ApiOwnerChangeCreate ==
  /\ ApiRows < MaxApiRows
  /\ Cardinality(owner_changes) < MaxOwnerChanges
  /\ \E start \in Time, end \in Time :
       OwnerChangeCreate("owner1", "owner2", ApiResource[1], ApiResource[2],
                         start, end)

ApiOfferUpdate ==
  \E offer_uuid \in OfferUuids, values \in UpdateValues :
    offer_update(offer_uuid, values)

ApiLeaseUpdate ==
  \E lease_uuid \in LeaseUuids, values \in UpdateValues :
    lease_update(lease_uuid, values)

ApiOwnerChangeUpdate ==
  \E owner_change_uuid \in OwnerChangeUuids, values \in UpdateValues :
    owner_change_update(owner_change_uuid, values)

InitApi == InitRace

NextApi ==
  \/ ApiOfferPost
  \/ ApiOfferClaim
  \/ ApiOwnerChangeCreate
  \/ ApiOfferUpdate
  \/ ApiLeaseUpdate
  \/ ApiOwnerChangeUpdate

SpecApi == InitApi /\ [][NextApi]_vars

\* ---------------------------------------------------------------- claim C3
\* C3: every persisted offer, lease and owner change has start_time <
\* end_time in every reachable state: the creation of an offer through
\* OffersController.post and every offer_update, lease_update and
\* owner_change_update either keeps the stored bounds strictly ordered or is
\* rejected.
C3_StartBeforeEnd ==
  \A r \in offers \cup leases \cup owner_changes : r.start_time < r.end_time

\* C3 witness: an update that would have put the end of a stored lease at
\* its start was rejected, and the lease is stored as before.
C3_Witness ==
  /\ ret.op = "lease_update" /\ ret.result = "InvalidTimeRange"
  /\ ret.values.start_time = NoTime /\ ret.values.end_time # NoTime
  /\ \E l \in lease_get_by_uuid(ret.uuid) :
       /\ ret.values.end_time = l.start_time
       /\ l.start_time < l.end_time

\* ------------------------------------------------ availabilities of an offer
MaxAvailTime == 5
MaxAvailLeases == 3

AvailTime == 0..MaxAvailTime
AvailWindows ==
  {iv \in [start_time : AvailTime, end_time : AvailTime] :
     iv.start_time < iv.end_time}
AvailLeaseUuids == 1..MaxAvailLeases

\* The leases query of offer_get_conflict_times with its status filter lost.
conflict_leases_any_status(offer_ref) ==
  {l \in leases : l.offer_uuid = offer_ref.uuid}

\* The leases query of offer_get_conflict_times: the leases joined with
\* their offers, the created and active ones of the offer.
conflict_leases(offer_ref) ==
  {l \in leases : /\ \E o \in offers : o.uuid = l.offer_uuid
                  /\ l.offer_uuid = offer_ref.uuid
                  /\ l.status \in {CREATED, ACTIVE}}

\* The rows with the order_by lost: in any order.
order_by_start_time_unordered(rows) ==
  {f \in [1..Cardinality(rows) -> rows] :
     \A i, j \in 1..Cardinality(rows) : i # j => f[i] # f[j]}

\* order_by(start_time): the orders the rows may come in, leases that start
\* together in either order.
order_by_start_time(rows) ==
  {f \in [1..Cardinality(rows) -> rows] :
     /\ \A i, j \in 1..Cardinality(rows) : i # j => f[i] # f[j]
     /\ \A i, j \in 1..Cardinality(rows) :
          i < j => f[i].start_time <= f[j].start_time}

\* with_entities(start_time, end_time): the two times of each row.
times_of(f) ==
  [i \in 1..Len(f) |-> [start_time |-> f[i].start_time,
                        end_time |-> f[i].end_time]]

\* offer_get_conflict_times: the lists the query may return.
offer_get_conflict_times(offer_ref) ==
  {times_of(f) : f \in order_by_start_time(conflict_leases(offer_ref))}

Max(a, b) == IF a >= b THEN a ELSE b

\* The scan of the availability calculator: a gap from the cursor to each
\* occupied interval that starts after it, the cursor moved to the end of
\* that interval when it is later, and a last gap up to the end of the offer.
RECURSIVE scan(_, _, _)
scan(conflicts, cursor, end) ==
  IF conflicts = <<>>
    THEN IF cursor < end
           THEN <<[start_time |-> cursor, end_time |-> end]>>
           ELSE <<>>
  ELSE (IF cursor < Head(conflicts).start_time
          THEN <<[start_time |-> cursor,
                  end_time |-> Head(conflicts).start_time]>>
          ELSE <<>>)
         \o scan(Tail(conflicts), Max(cursor, Head(conflicts).end_time), end)

\* Offer.get_availabilities on the list offer_get_conflict_times returned.
get_availabilities(offer_ref, conflicts) ==
  scan(conflicts, offer_ref.start_time, offer_ref.end_time)

\* A call of get_availabilities on a stored offer.
GetAvailabilitiesCall(offer_ref) ==
  /\ \E conflicts \in offer_get_conflict_times(offer_ref) :
       ret' = [op |-> "get_availabilities", offer |-> offer_ref,
               conflicts |-> conflicts,
               result |-> get_availabilities(offer_ref, conflicts)]
  /\ UNCHANGED <<offers, leases, owner_changes, procs, locks>>

\* The rows of this specification: one available offer, and leases claimed
\* from it, each inside the offer's window, stored through the db api.
AvailOfferCreate ==
  /\ offers = {}
  /\ \E w \in AvailWindows :
       offer_create(OfferRow(generate_uuid(offers, OfferUuids), "owner1",
                             ApiResource[1], ApiResource[2],
                             w.start_time, w.end_time, AVAILABLE))

AvailLeaseCreate ==
  /\ Cardinality(leases) < MaxAvailLeases
  /\ \E o \in offers, w \in AvailWindows, st \in {CREATED, ACTIVE, CANCELLED} :
       /\ o.start_time <= w.start_time /\ w.end_time <= o.end_time
       /\ lease_create(LeaseRow(generate_uuid(leases, AvailLeaseUuids), o.uuid,
                                "owner2", o.project_id,
                                o.resource_type, o.resource_uuid,
                                w.start_time, w.end_time, st))

AvailGet == \E o \in offers : GetAvailabilitiesCall(o)

InitAvail == InitRace

NextAvail ==
  \/ AvailOfferCreate
  \/ AvailLeaseCreate
  \/ AvailGet

SpecAvail == InitAvail /\ [][NextAvail]_vars

\* ---------------------------------------------------------------- claim C9
IsAvail == ret.op = "get_availabilities"

\* The occupied intervals of the call: the created and active leases of the
\* offer.
Occupied == SiblingLeases(ret.offer)

\* The occupied intervals are inside the offer and no two of them overlap;
\* they may touch.
OccupiedApart ==
  /\ \A l \in Occupied :
       ret.offer.start_time <= l.start_time /\ l.end_time <= ret.offer.end_time
  /\ \A l \in Occupied, m \in Occupied : l # m => ~Intersects(l, m)

InGap(t, g) == g.start_time <= t /\ t < g.end_time

Gaps == {ret.result[i] : i \in 1..Len(ret.result)}

\* C9: for every offer interval and every start-sorted list of pairwise
\* non-overlapping occupied intervals inside it (touching allowed),
\* get_availabilities returns exactly the maximal free sub-intervals in
\* ascending order: each gap is non-empty, no gap overlaps an occupied
\* interval, gaps and occupied intervals together cover the whole offer, the
\* result is empty when one occupied interval spans the offer, and it is the
\* single interval of the offer when nothing is occupied.
C9_AvailabilitiesAreTheGaps ==
  (IsAvail /\ OccupiedApart) =>
    /\ \A g \in Gaps : NonEmpty(g)
    /\ \A g \in Gaps :
         ret.offer.start_time <= g.start_time /\ g.end_time <= ret.offer.end_time
    /\ \A i \in 1..(Len(ret.result) - 1) :
         ret.result[i].end_time < ret.result[i + 1].start_time
    /\ \A g \in Gaps, l \in Occupied : ~Intersects(g, l)
    /\ \A t \in AvailTime :
         (ret.offer.start_time <= t /\ t < ret.offer.end_time) =>
           ((\E g \in Gaps : InGap(t, g)) \/ (\E l \in Occupied : InGap(t, l)))
    /\ (\E l \in Occupied : l.start_time = ret.offer.start_time
                              /\ l.end_time = ret.offer.end_time)
         => ret.result = <<>>
    /\ Occupied = {}
         => ret.result = <<[start_time |-> ret.offer.start_time,
                            end_time |-> ret.offer.end_time]>>

\* C9 witness: three occupied intervals, the first two touching, left two
\* gaps, one between the second and the third and one up to the offer's end.
C9_Witness ==
  /\ IsAvail /\ OccupiedApart
  /\ Len(ret.conflicts) = 3
  /\ ret.conflicts[1].start_time = ret.offer.start_time
  /\ ret.conflicts[1].end_time = ret.conflicts[2].start_time
  /\ ret.conflicts[2].end_time < ret.conflicts[3].start_time
  /\ ret.conflicts[3].end_time < ret.offer.end_time
  /\ Len(ret.result) = 2

\* --------------------------------------------------------------- claim C11
\* C11: offer_verify_availability(offer, start, end) returns normally if and
\* only if the window lies inside the offer's window and overlaps no created
\* or active lease whose offer_uuid is that offer; leases of that offer in
\* another status, and leases that are not of that offer, never make it fail.
C11_OfferVerifyIffFreeInside ==
  IsOva =>
    (ret.result = "ok"
       <=> /\ InsideOffer(ret)
           /\ \A l \in SiblingLeases(ret.offer) :
                ~Overlaps(ret.start_time, ret.end_time, l))

\* C11 witness: the window was inside the offer and overlapped a lease that
\* is cancelled or is not of that offer, and the call returned.
C11_Witness ==
  /\ IsOva /\ ret.start_time < ret.end_time /\ InsideOffer(ret)
  /\ ret.result = "ok"
  /\ \E l \in leases :
       /\ l.resource_type = ret.offer.resource_type
       /\ l.resource_uuid = ret.offer.resource_uuid
       /\ l.offer_uuid # ret.offer.uuid /\ l.status = ACTIVE
       /\ Overlaps(ret.start_time, ret.end_time, l)

\* ------------------------------------------------ the administration check
\* Owner changes stored through the db api, and calls of
\* resource_check_admin about one resource.
AdminOwnerChangeValues ==
  {OwnerChangeRow(generate_uuid(owner_changes, AdminUuids),
                  "owner1", "owner2", r[1], r[2],
                  w.start_time, w.end_time, st) :
     r \in CreateResources, w \in Windows, st \in {CREATED, ACTIVE, CANCELLED}}

AdminOwnerChangeCreate ==
  /\ Cardinality(owner_changes) < MaxAdminChanges
  /\ \E values \in AdminOwnerChangeValues : owner_change_create(values)

\* A call of resource_check_admin and what it returned.
ResourceCheckAdminCall(r_type, r_uuid, start, end, default_admin_project_id, project_id) ==
  /\ ret' = [op |-> "resource_check_admin",
             resource_type |-> r_type, resource_uuid |-> r_uuid,
             start_time |-> start, end_time |-> end,
             default_admin_project_id |-> default_admin_project_id,
             project_id |-> project_id,
             result |-> resource_check_admin(r_type, r_uuid, start, end,
                                             default_admin_project_id,
                                             project_id)]
  /\ UNCHANGED <<offers, leases, owner_changes, procs, locks>>

AdminCheck ==
  \E iv \in Intervals, default_admin_project_id \in Projects, project_id \in Projects :
    ResourceCheckAdminCall(CheckResource[1], CheckResource[2],
                           iv.start_time, iv.end_time,
                           default_admin_project_id, project_id)

InitAdmin == InitRace

NextAdmin ==
  \/ AdminOwnerChangeCreate
  \/ AdminCheck

SpecAdmin == InitAdmin /\ [][NextAdmin]_vars

\* --------------------------------------------------------------- claim C12
IsAdmin == ret.op = "resource_check_admin"

\* The created and active owner changes of the resource asked about.
AdminChanges == BlockingOwnerChanges(ret.resource_type, ret.resource_uuid)

\* The change c straddles the window of the call.
Straddles(c) ==
  \/ (ret.start_time >= c.start_time /\ ret.start_time < c.end_time
      /\ ret.end_time > c.end_time)
  \/ (ret.start_time < c.start_time /\ ret.end_time > c.start_time
      /\ ret.end_time < c.end_time)
  \/ (ret.start_time <= c.start_time /\ ret.end_time >= c.end_time)

\* C12: resource_check_admin returns false for every candidate project
\* whenever some created or active owner change of the resource straddles
\* the requested window.
C12_StraddleDenies ==
  (IsAdmin /\ \E c \in AdminChanges : Straddles(c)) => ret.result = FALSE

\* C12 witness: the window contains a change whose to_owner, also the default
\* administrator, asked, and was refused.
C12_Witness ==
  /\ IsAdmin /\ ret.start_time < ret.end_time /\ ret.result = FALSE
  /\ ret.project_id = ret.default_admin_project_id
  /\ \E c \in AdminChanges :
       /\ ret.start_time < c.start_time /\ c.end_time < ret.end_time
       /\ c.to_owner_id = ret.project_id

\* --------------------------------------------------------------- claim C13
\* The window of the call lies strictly inside the change c.
StrictlyInside(c) ==
  c.start_time < ret.start_time /\ ret.end_time < c.end_time

\* C13: when the requested window lies strictly inside exactly one created
\* or active owner change of the resource and no other such change overlaps
\* the window, resource_check_admin returns true if and only if the candidate
\* project equals that change's to_owner_id.
C13_InsideChangeToOwnerDecides ==
  IsAdmin =>
    \A c \in AdminChanges :
      (/\ StrictlyInside(c)
       /\ \A d \in AdminChanges \ {c} :
            ~Overlaps(ret.start_time, ret.end_time, d))
        => (ret.result <=> ret.project_id = c.to_owner_id)

\* C13 witness: the default administrator asked for a window strictly inside
\* a change to another project, next to a second change, and was refused.
C13_Witness ==
  /\ IsAdmin /\ ret.start_time < ret.end_time /\ ret.result = FALSE
  /\ ret.project_id = ret.default_admin_project_id
  /\ Cardinality(AdminChanges) = 2
  /\ \E c \in AdminChanges :
       /\ StrictlyInside(c) /\ c.to_owner_id # ret.project_id
       /\ \A d \in AdminChanges \ {c} :
            ~Overlaps(ret.start_time, ret.end_time, d)

\* --------------------------------------------------------------- claim C14
\* C14: when no created or active owner change of the resource overlaps the
\* requested window, resource_check_admin returns true if and only if the
\* candidate project equals default_admin_project_id.
C14_NoChangeDefaultDecides ==
  (IsAdmin /\ \A c \in AdminChanges :
                 ~Overlaps(ret.start_time, ret.end_time, c))
    => (ret.result <=> ret.project_id = ret.default_admin_project_id)

\* C14 witness: a cancelled change of the resource covers the window, an
\* active one lies after it, and the default administrator was accepted.
C14_Witness ==
  /\ IsAdmin /\ ret.start_time < ret.end_time /\ ret.result = TRUE
  /\ ret.project_id = ret.default_admin_project_id
  /\ \E c \in owner_changes :
       /\ OnResource(c, ret.resource_type, ret.resource_uuid)
       /\ c.status = CANCELLED /\ c.to_owner_id # ret.project_id
       /\ c.start_time <= ret.start_time /\ ret.end_time <= c.end_time
  /\ \E c \in AdminChanges : ret.end_time <= c.start_time

\* --------------------------------------------------------------- claim C15
\* The changes whose interval the window contains, and the changes whose
\* interval contains the window.
ChangesWithin ==
  {c \in AdminChanges :
     ret.start_time <= c.start_time /\ ret.end_time >= c.end_time}

ChangesAround ==
  {c \in AdminChanges :
     ret.start_time >= c.start_time /\ ret.end_time <= c.end_time}

C16_SeveralChangesDeny ==
  (IsAdmin /\ (Cardinality(ChangesAround) > 1
                 \/ Cardinality(ChangesWithin) > 1))
    => ret.result = FALSE

\* C16 witness: two changes contain the window, none straddles it, and their
\* to_owner, also the default administrator, was refused.
C16_Witness ==
  /\ IsAdmin /\ ret.start_time < ret.end_time /\ ret.result = FALSE
  /\ \A c \in AdminChanges : ~Straddles(c)
  /\ Cardinality(ChangesAround) = 2
  /\ ret.project_id = ret.default_admin_project_id
  /\ \A c \in ChangesAround : c.to_owner_id = ret.project_id

\* ------------------------------------------- the life of the owner changes
\* Owner changes created through OwnerChange.create, updated and destroyed
\* through the db api.
OwnerUpdateValues ==
  [start_time : Time \cup {NoTime}, end_time : Time \cup {NoTime},
   status : {None, CANCELLED}]

OwnerCreate ==
  /\ Cardinality(owner_changes) < MaxAdminChanges
  /\ \E r \in CreateResources, start \in Time, end \in Time :
       OwnerChangeCreate("owner1", "owner2", r[1], r[2], start, end)

OwnerUpdate ==
  \E owner_change_uuid \in AdminUuids, values \in OwnerUpdateValues :
    owner_change_update(owner_change_uuid, values)

OwnerDestroy ==
  \E owner_change_uuid \in AdminUuids :
    owner_change_destroy(owner_change_uuid)

InitOwner == InitRace

NextOwner ==
  \/ OwnerCreate
  \/ OwnerUpdate
  \/ OwnerDestroy

SpecOwner == InitOwner /\ [][NextOwner]_vars

\* --------------------------------------------------------------- claim C17
\* C17 as stated: in every state reached by owner change creations that each
\* pass resource_verify_availability with is_owner_change=True, together with
\* owner_change_update and owner_change_destroy, no two created or active
\* owner changes of the same resource overlap.
C17_NoOverlappingOwnerChanges ==
  \A c \in owner_changes, d \in owner_changes :
    (/\ c # d /\ SameResource(c, d)
     /\ c.status \in {CREATED, ACTIVE} /\ d.status \in {CREATED, ACTIVE})
      => ~Intersects(c, d)

\* ------------------------------------------------------------ the updates
\* Reservations made through the api, then updated through the db api with
\* values of every shape: times and status supplied or not, and values that
\* carry the identity keys as well.
UpdateAnyValues ==
  [start_time : {NoTime, 1, 2}, end_time : {NoTime, 1, 2}, status : {None}]
    \cup [start_time : {NoTime}, end_time : {NoTime, 1}, status : {CANCELLED}]
    \cup {[start_time |-> t, end_time |-> NoTime, status |-> None,
           uuid |-> 2, project_id |-> "owner2",
           from_owner_id |-> "owner2", to_owner_id |-> "owner1",
           resource_type |-> "ironic_node", resource_uuid |-> "2222"] :
            t \in {NoTime, 1}}

NextUpdate ==
  \/ ApiOfferPost
  \/ ApiOfferClaim
  \/ ApiOwnerChangeCreate
  \/ \E offer_uuid \in OfferUuids, values \in UpdateAnyValues :
       offer_update(offer_uuid, values)
  \/ \E lease_uuid \in LeaseUuids, values \in UpdateAnyValues :
       lease_update(lease_uuid, values)
  \/ \E owner_change_uuid \in OwnerChangeUuids, values \in UpdateAnyValues :
       owner_change_update(owner_change_uuid, values)

SpecUpdate == InitApi /\ [][NextUpdate]_vars

\* --------------------------------------------------------------- claim C18
\* The identity of the rows of a table: the values they hold under the keys.
IdentityOf(rows, keys) == {[k \in keys |-> r[k]] : r \in rows}

OwnerChangeIdentity ==
  {"uuid", "from_owner_id", "to_owner_id", "resource_type", "resource_uuid"}

\* C18: an update never overwrites identity fields: after offer_update or
\* lease_update the stored uuid and project_id equal their values before the
\* call whatever the supplied values contain, and after owner_change_update
\* the stored uuid, from_owner_id, to_owner_id, resource_type and
\* resource_uuid are unchanged.
C18_IdentityKept ==
  [][/\ ret'.op = "offer_update" =>
          IdentityOf(offers', {"uuid", "project_id"})
            = IdentityOf(offers, {"uuid", "project_id"})
     /\ ret'.op = "lease_update" =>
          IdentityOf(leases', {"uuid", "project_id"})
            = IdentityOf(leases, {"uuid", "project_id"})
     /\ ret'.op = "owner_change_update" =>
          IdentityOf(owner_changes', OwnerChangeIdentity)
            = IdentityOf(owner_changes, OwnerChangeIdentity)]_vars

\* C18 witness: an owner change was updated with values that carry another
\* uuid, other owners and another resource together with a new start; the
\* start is stored, the identity is as it was.
C18_Witness ==
  /\ ret.op = "owner_change_update" /\ ret.result = "ok"
  /\ "to_owner_id" \in DOMAIN ret.values
  /\ ret.values.start_time # NoTime
  /\ \E c \in owner_change_get_by_uuid(ret.uuid) :
       /\ c.start_time = ret.values.start_time
       /\ c.uuid # ret.values.uuid
       /\ c.from_owner_id # ret.values.from_owner_id
       /\ c.to_owner_id # ret.values.to_owner_id
       /\ c.resource_type # ret.values.resource_type
       /\ c.resource_uuid # ret.values.resource_uuid

\* --------------------------------------------------------------- claim C19
IsUpdate(call) ==
  call.op \in {"offer_update", "lease_update", "owner_change_update"}

\* The table an update call is about, in a state given by its three tables.
TableOf(call, os, ls, cs) ==
  IF call.op = "offer_update" THEN os
  ELSE IF call.op = "lease_update" THEN ls
  ELSE cs

\* The times of the rows of a table that have the uuid.
TimesOf(rows, uuid) ==
  {<<r.start_time, r.end_time>> : r \in {q \in rows : q.uuid = uuid}}

\* The rows of a table that do not have the uuid.
OtherRows(rows, uuid) == {r \in rows : r.uuid # uuid}

\* C19: an update that supplies only non-time fields leaves the stored
\* start_time and end_time of that reservation unchanged, and leaves every
\* other reservation unchanged.
C19_TimesKept ==
  [][(/\ IsUpdate(ret')
      /\ ret'.values.start_time = NoTime
      /\ ret'.values.end_time = NoTime) =>
       /\ TimesOf(TableOf(ret', offers', leases', owner_changes'), ret'.uuid)
            = TimesOf(TableOf(ret', offers, leases, owner_changes), ret'.uuid)
       /\ OtherRows(TableOf(ret', offers', leases', owner_changes'), ret'.uuid)
            = OtherRows(TableOf(ret', offers, leases, owner_changes), ret'.uuid)
       /\ ret'.op # "offer_update" => offers' = offers
       /\ ret'.op # "lease_update" => leases' = leases
       /\ ret'.op # "owner_change_update" => owner_changes' = owner_changes]_vars

\* C19 witness: an offer was updated with a status only and is stored
\* cancelled, next to a lease claimed from it.
C19_Witness ==
  /\ ret.op = "offer_update" /\ ret.result = "ok"
  /\ ret.values.start_time = NoTime /\ ret.values.end_time = NoTime
  /\ ret.values.status = CANCELLED
  /\ \E o \in offer_get_by_uuid(ret.uuid) :
       /\ o.status = CANCELLED
       /\ \E l \in leases : l.offer_uuid = o.uuid

\* --------------------------------------------------------------- claim C20
\* The effective bounds of an update of the row r: the supplied value, or
\* the stored one for an omitted field.
EffectiveStart(r, values) ==
  IF values.start_time = NoTime THEN r.start_time ELSE values.start_time

EffectiveEnd(r, values) ==
  IF values.end_time = NoTime THEN r.end_time ELSE values.end_time

\* C20: offer_update, lease_update and owner_change_update validate the
\* effective bounds: if effective start >= effective end the call raises
\* InvalidTimeRange and the stored reservation is exactly as before the call,
\* with no field of the supplied values applied.
C20_InvalidBoundsRejected ==
  [][IsUpdate(ret') =>
       \A r \in TableOf(ret', offers, leases, owner_changes) :
         (/\ r.uuid = ret'.uuid
          /\ EffectiveStart(r, ret'.values) >= EffectiveEnd(r, ret'.values))
           => /\ ret'.result = "InvalidTimeRange"
              /\ offers' = offers
              /\ leases' = leases
              /\ owner_changes' = owner_changes]_vars

\* C20 witness: a lease was updated with a status and an end that is not
\* after its stored start; InvalidTimeRange was raised and the lease is
\* stored as created, ending after that.
C20_Witness ==
  /\ ret.op = "lease_update" /\ ret.result = "InvalidTimeRange"
  /\ ret.values.start_time = NoTime /\ ret.values.end_time # NoTime
  /\ ret.values.status = CANCELLED
  /\ \E l \in lease_get_by_uuid(ret.uuid) :
       /\ l.status = CREATED
       /\ ret.values.end_time <= l.start_time
       /\ l.start_time < l.end_time

\* ------------------------------------------------------------ the destroys
\* Offers, leases and owner changes created through the API and destroyed
\* through the db api, with uuids that are stored and uuids that are not.
NextDestroy ==
  \/ /\ Cardinality(offers) < MaxOffers
     /\ \E project_id \in Projects, start \in Time, end \in Time :
          OfferPost(project_id, ApiResource[1], ApiResource[2], start, end)
  \/ /\ Cardinality(leases) < MaxLeases
     /\ \E offer_uuid \in OfferUuids, start \in Time,
           end \in Time \cup {NoTime} :
          OfferClaim("owner2", offer_uuid, start, end)
  \/ /\ Cardinality(owner_changes) < MaxAdminChanges
     /\ \E start \in Time, end \in Time :
          OwnerChangeCreate("owner1", "owner2", ApiResource[1],
                            ApiResource[2], start, end)
  \/ \E offer_uuid \in OfferUuids : offer_destroy(offer_uuid)
  \/ \E lease_uuid \in LeaseUuids : lease_destroy(lease_uuid)
  \/ \E owner_change_uuid \in AdminUuids :
       owner_change_destroy(owner_change_uuid)

SpecDestroy == InitApi /\ [][NextDestroy]_vars

IsDestroy(call) ==
  call.op \in {"offer_destroy", "lease_destroy", "owner_change_destroy"}

\* The table a destroy call is about, in a state given by its three tables.
DestroyTable(call, os, ls, cs) ==
  IF call.op = "offer_destroy" THEN os
  ELSE IF call.op = "lease_destroy" THEN ls
  ELSE cs

\* The exception a destroy raises for a uuid that is not stored.
NotFoundOf(call) ==
  IF call.op = "offer_destroy" THEN "OfferNotFound"
  ELSE IF call.op = "lease_destroy" THEN "LeaseNotFound"
  ELSE "OwnerChangeNotFound"

\* --------------------------------------------------------------- claim C21
\* C21: offer_destroy, lease_destroy and owner_change_destroy called with a
\* uuid that matches no stored row raise OfferNotFound, LeaseNotFound and
\* OwnerChangeNotFound respectively and leave the store unchanged.
C21_DestroyNotFound ==
  [][(/\ IsDestroy(ret')
      /\ \A r \in DestroyTable(ret', offers, leases, owner_changes) :
           r.uuid # ret'.uuid) =>
       /\ ret'.result = NotFoundOf(ret')
       /\ offers' = offers
       /\ leases' = leases
       /\ owner_changes' = owner_changes]_vars

\* C21 witness: lease_destroy raised LeaseNotFound for a uuid that is not
\* stored while another lease is.
C21_Witness ==
  /\ ret.op = "lease_destroy" /\ ret.result = "LeaseNotFound"
  /\ leases # {}
  /\ \A l \in leases : l.uuid # ret.uuid

\* --------------------------------------------------------------- claim C22
\* C22 as stated: a successful offer_destroy(u), lease_destroy(u) or
\* owner_change_destroy(u) removes exactly the one row whose uuid is u:
\* afterwards get_by_uuid(u) returns nothing, and every other offer, lease
\* and owner change that was stored before the call is still stored and
\* unchanged.
C22_DestroyRemovesOneRow ==
  [][(IsDestroy(ret') /\ ret'.result = "ok") =>
       /\ DestroyTable(ret', offers', leases', owner_changes')
            = {r \in DestroyTable(ret', offers, leases, owner_changes) :
                 r.uuid # ret'.uuid}
       /\ ret'.op # "offer_destroy" => offers' = offers
       /\ ret'.op # "lease_destroy" => leases' = leases
       /\ ret'.op # "owner_change_destroy"
            => owner_changes' = owner_changes]_vars

\* --------------------------------------------------------------- claim C23
IsCreate(call) ==
  call.op \in {"offer_post", "offer_claim", "owner_change_post"}

\* A blocking offer or lease of the resource overlaps the window of the call.
WindowConflicts(call) ==
  \E b \in BlockingOffers(call.resource_type, call.resource_uuid)
             \cup BlockingLeases(call.resource_type, call.resource_uuid) :
    Overlaps(call.start_time, call.end_time, b)

\* C23: a create request that fails validation leaves no persisted effect:
\* an offer create with start_time >= end_time is rejected with
\* InvalidTimeRange, a create whose admin check fails is rejected, a create
\* whose window conflicts is rejected with ResourceTimeConflict, and in each
\* case the stored offers, leases and owner changes are identical before and
\* after the request.
C23_FailedCreateLeavesNothing ==
  [][/\ ret'.op = "offer_post" =>
          /\ ret'.start_time >= ret'.end_time
               => ret'.result = "InvalidTimeRange"
          /\ (/\ ret'.start_time < ret'.end_time
              /\ ~check_resource_admin(ret'.resource_type,
                                       ret'.resource_uuid, ret'.project_id,
                                       ret'.start_time, ret'.end_time))
               => ret'.result \notin {"ok", "InvalidTimeRange"}
          /\ (/\ ret'.start_time < ret'.end_time
              /\ check_resource_admin(ret'.resource_type,
                                      ret'.resource_uuid, ret'.project_id,
                                      ret'.start_time, ret'.end_time)
              /\ WindowConflicts(ret'))
               => ret'.result = "ResourceTimeConflict"
     /\ (IsCreate(ret') /\ ret'.result # "ok") =>
          /\ offers' = offers
          /\ leases' = leases
          /\ owner_changes' = owner_changes]_vars

\* C23 witness: an offer post by the owner of the node was rejected with
\* ResourceTimeConflict over a lease whose offer is no longer stored; no
\* offer is stored.
C23_Witness ==
  /\ ret.op = "offer_post" /\ ret.result = "ResourceTimeConflict"
  /\ offers = {}
  /\ \E l \in BlockingLeases(ret.resource_type, ret.resource_uuid) :
       Overlaps(ret.start_time, ret.end_time, l)

\* ------------------------------------- OffersController.post, step by step
\* A thread is started on a post: the offer_dict is built.
PostBegin(p) ==
  /\ procs[p].pc = "idle"
  /\ CreateRows + Cardinality(InFlight) < MaxCreateRows
  /\ \E project_id \in Projects, r \in CreateResources, iv \in Intervals :
       procs' = [procs EXCEPT ![p] =
                   [pc |-> "post", kind |-> "offer", project_id |-> project_id,
                    resource_type |-> r[1], resource_uuid |-> r[2],
                    start_time |-> iv.start_time, end_time |-> iv.end_time]]
  /\ UNCHANGED <<offers, leases, owner_changes, ret, locks>>

\* The time check of post.
PostTimeCheck(p) ==
  /\ procs[p].pc = "post"
  /\ procs' = [procs EXCEPT ![p] =
                 IF procs[p].start_time >= procs[p].end_time
                   THEN Finished(procs[p], "InvalidTimeRange")
                   ELSE [procs[p] EXCEPT !.pc = "timed"]]
  /\ UNCHANGED <<offers, leases, owner_changes, ret, locks>>

\* utils.check_resource_admin; after it Offer.create is called.
PostAdminCheck(p) ==
  /\ procs[p].pc = "timed"
  /\ procs' = [procs EXCEPT ![p] =
                 IF check_resource_admin(procs[p].resource_type,
                                         procs[p].resource_uuid,
                                         procs[p].project_id,
                                         procs[p].start_time,
                                         procs[p].end_time)
                   THEN [procs[p] EXCEPT !.pc = "begun"]
                   ELSE Finished(procs[p], "HTTPResourceForbidden")]
  /\ UNCHANGED <<offers, leases, owner_changes, ret, locks>>

NextPost ==
  \E p \in Procs :
    \/ PostBegin(p)
    \/ PostTimeCheck(p)
    \/ PostAdminCheck(p)
    \/ CreateLock(p)
    \/ CreateVerify(p)
    \/ CreatePersist(p)
    \/ CreateReturn(p)

SpecPost == InitRace /\ [][NextPost]_vars

\* --------------------------------------------------------------- claim C24
\* The steps a post may take, as pairs of positions.
PostOrder ==
  {<<"idle", "post">>,
   <<"post", "timed">>, <<"post", "done">>,
   <<"timed", "begun">>, <<"timed", "done">>,
   <<"begun", "locked">>,
   <<"locked", "verified">>, <<"locked", "done">>,
   <<"verified", "done">>,
   <<"done", "idle">>}

\* The request of thread p is clear: no available offer and no created or
\* active lease of its resource overlaps its window.
RequestClear(p) ==
  ~\E b \in BlockingOffers(procs[p].resource_type, procs[p].resource_uuid)
              \cup BlockingLeases(procs[p].resource_type,
                                  procs[p].resource_uuid) :
     Overlaps(procs[p].start_time, procs[p].end_time, b)

\* C24: in every execution of offer creation the steps occur in this order:
\* the time-range check, the resource-admin check, the conflict check
\* (resource_verify_availability with is_owner_change=False), and only then
\* the insert (offer_create); the insert never happens before, or without, a
\* conflict check on the same resource and window that returned no conflict.
C24_ChecksBeforeInsert ==
  [][/\ \A p \in Procs :
          procs'[p].pc # procs[p].pc
            => <<procs[p].pc, procs'[p].pc>> \in PostOrder
     /\ offers' # offers =>
          \E p \in Procs :
            /\ procs[p].pc = "verified" /\ procs'[p].pc = "done"
            /\ procs[p].start_time < procs[p].end_time
            /\ check_resource_admin(procs[p].resource_type,
                                    procs[p].resource_uuid,
                                    procs[p].project_id,
                                    procs[p].start_time, procs[p].end_time)
            /\ RequestClear(p)
            /\ \E o \in offers' :
                 /\ offers' = offers \cup {o} /\ o \notin offers
                 /\ SameResource(o, procs[p])
                 /\ o.start_time = procs[p].start_time
                 /\ o.end_time = procs[p].end_time
                 /\ o.project_id = procs[p].project_id]_vars

\* C24 witness: both threads posted overlapping windows on one resource;
\* one went through every step and created its offer, the other raised
\* ResourceTimeConflict at the conflict check.
C24_Witness ==
  /\ Cardinality(offers) = 1
  /\ \E p \in Procs, q \in Procs :
       /\ Done(p) /\ procs[p].result = "created"
       /\ Done(q) /\ procs[q].result = "ResourceTimeConflict"
       /\ SameResource(procs[p], procs[q])

\* --------------------------------------------------------------- claim C25
\* The instant start lies in a free part of the offer: inside the offer and
\* in none of its created or active leases.
FreeAt(offer_ref, start) ==
  /\ offer_ref.start_time <= start /\ start < offer_ref.end_time
  /\ \A l \in SiblingLeases(offer_ref) :
       ~(l.start_time <= start /\ start < l.end_time)

\* The end of the availability gap of the offer that contains start: the
\* start of the next created or active lease of the offer that begins at or
\* after start, else the end of the offer.
GapEnd(offer_ref, start) ==
  LET next == {l.start_time : l \in {m \in SiblingLeases(offer_ref) :
                                       m.start_time >= start}}
  IN IF next = {} THEN offer_ref.end_time
     ELSE CHOOSE t \in next : \A u \in next : t <= u

\* C25 as stated: when an offer is claimed without an end_time, the lease's
\* end_time is resolved to the end of the availability gap that contains the
\* lease's start_time: the start_time of the offer's next CREATED/ACTIVE
\* lease beginning at or after the requested start if there is one,
\* otherwise the offer's end_time; in particular it is strictly after the
\* requested start whenever that start lies in a free part of the offer.
C25_ClaimEndIsGapEnd ==
  [][(ret'.op = "offer_claim" /\ ret'.end_time = NoTime) =>
       \A o \in offers :
         (/\ o.uuid = ret'.offer_uuid /\ o.status = AVAILABLE
          /\ FreeAt(o, ret'.start_time)) =>
           /\ GapEnd(o, ret'.start_time) > ret'.start_time
           /\ ret'.result = "ok"
           /\ \E l \in leases' \ leases :
                /\ l.offer_uuid = o.uuid
                /\ l.start_time = ret'.start_time
                /\ l.end_time = GapEnd(o, ret'.start_time)]_vars

\* --------------------------------------------------------------- claim C26
\* C26 as stated: in every state reachable by claims (each passing
\* offer_verify_availability before the lease is persisted), offer updates,
\* lease updates and cancellations, every CREATED/ACTIVE lease with an origin
\* offer has its interval inside that offer's interval and overlaps no other
\* CREATED/ACTIVE lease of the same offer.
C26_LeaseInsideOfferApart ==
  \A l \in leases :
    l.status \in {CREATED, ACTIVE} =>
      \A o \in offer_get_by_uuid(l.offer_uuid) :
        /\ o.start_time <= l.start_time /\ l.end_time <= o.end_time
        /\ \A m \in SiblingLeases(o) : m # l => ~Intersects(l, m)

\* --------------------------------------------------------------- claim C27
\* A committed reservation in a blocking status holds the resource of the
\* request of thread p over an instant of its window.
StandsAgainst(p) ==
  \E b \in Reservations :
    /\ SameResource(b, procs[p])
    /\ SharesInstant(procs[p].start_time, procs[p].end_time, b)

\* C27: once a create has committed a reservation, every conflict check that
\* starts afterwards for an overlapping window on the same resource observes
\* that reservation and fails with ResourceTimeConflict, for as long as the
\* reservation stays in a blocking status (offer AVAILABLE, lease
\* CREATED/ACTIVE); a loser of a race that retries never succeeds while the
\* winner's reservation stands.
C27_CommittedIsObserved ==
  [][\A p \in Procs :
       (/\ procs[p].pc = "locked" /\ procs'[p].pc # "locked"
        /\ StandsAgainst(p)) =>
         /\ procs'[p].pc = "done"
         /\ procs'[p].result = "ResourceTimeConflict"]_vars

\* C27 witness: a create was started after the other thread's create had
\* returned, and raised ResourceTimeConflict on the reservation that stands.
C27_Witness ==
  \E p \in Procs, q \in Procs :
    /\ procs[q].pc = "idle"
    /\ Done(p) /\ procs[p].result = "ResourceTimeConflict"
    /\ StandsAgainst(p)

\* --------------------------------------------------------------- claim C28
\* The creates of SpecRace under a fair scheduler: a thread that can take
\* its next step inside create is not held back forever. Starting a create
\* is left to the caller.
FairRace ==
  /\ SpecRace
  /\ \A p \in Procs :
       /\ WF_vars(CreateLock(p))
       /\ WF_vars(CreateVerify(p))
       /\ WF_vars(CreatePersist(p))

\* The create of thread p has started and has not finished.
Running(p) == procs[p].pc \in {"begun", "locked", "verified"}

\* C28: under fair scheduling every started create operation eventually
\* finishes, either by committing its reservation or by returning an error,
\* also when several creates for the same resource race; no create waits
\* forever for the per-resource serialization and no deadlock state is
\* reachable.
C28_CreateFinishes ==
  \A p \in Procs : Running(p) ~> Done(p)

\* C28 witness: a create waits for the lock of its resource while the other
\* thread's create holds it.
C28_Witness ==
  \E p \in Procs, q \in Procs :
    /\ procs[p].pc = "begun"
    /\ procs[q].pc \in {"locked", "verified"}
    /\ SameResource(procs[p], procs[q])
    /\ get_resource_lock_name(procs[p].resource_type,
                              procs[p].resource_uuid) \in locks

\* --------------------------------------------------------------- claim C29
\* C29: deleting an offer through the API is allowed only while the offer's
\* status is AVAILABLE, and it is a status change (cancel), not a row
\* removal: after a successful delete the offer is still stored with the
\* same uuid and a non-AVAILABLE status, and an offer that is not AVAILABLE
\* is never cancelled by this operation.
C29_DeleteCancelsAvailable ==
  [][(ret'.op = "offer_delete" /\ procs' = procs) =>
       /\ ret'.result = "ok"
            <=> \E o \in offers : o.uuid = ret'.uuid /\ o.status = AVAILABLE
       /\ ret'.result = "ok" =>
            \E o \in offers' : o.uuid = ret'.uuid /\ o.status # AVAILABLE
       /\ {o.uuid : o \in offers'} = {o.uuid : o \in offers}
       /\ Cardinality(offers') = Cardinality(offers)
       /\ \A o \in offers :
            (o.uuid # ret'.uuid \/ o.status # AVAILABLE) => o \in offers']_vars

\* C29 witness: an available offer was deleted and is stored cancelled.
C29_Witness ==
  /\ ret.op = "offer_delete" /\ ret.result = "ok"
  /\ \E o \in offer_get_by_uuid(ret.uuid) : o.status = CANCELLED

\* ------------------------------------------ the conflict times of an offer
\* Offers over the whole of Time on two resources, and leases of either
\* offer or of none, in every status, stored through the db api; the
\* conflict times are read by Offer.get_availabilities.
MaxTimesLeases == 3

NextTimes ==
  \/ /\ Cardinality(offers) < MaxOffers
     /\ \E r \in CreateResources :
          offer_create(OfferRow(generate_uuid(offers, OfferUuids), "owner1",
                                r[1], r[2], 0, MaxTime, AVAILABLE))
  \/ /\ Cardinality(leases) < MaxTimesLeases
     /\ \E offer_uuid \in OfferUuids \cup {NoUuid}, w \in Windows,
           st \in {CREATED, ACTIVE, CANCELLED} :
          /\ w.end_time < MaxTime
          /\ lease_create(LeaseRow(generate_uuid(leases, 1..MaxTimesLeases),
                                   offer_uuid, "owner2", "owner1",
                                   ApiResource[1], ApiResource[2],
                                   w.start_time, w.end_time, st))
  \/ \E o \in offers : GetAvailabilitiesCall(o)

SpecTimes == InitCheck /\ [][NextTimes]_vars

\* --------------------------------------------------------------- claim C30
\* The leases the conflict times of the call are about.
ConflictLeasesOf(call) ==
  {l \in leases : l.offer_uuid = call.offer.uuid
                    /\ l.status \in {CREATED, ACTIVE}}

\* C30: offer_get_conflict_times(offer) returns the (start_time, end_time)
\* pairs of exactly the leases whose offer_uuid is that offer and whose
\* status is CREATED or ACTIVE, in ascending order of start_time; leases in
\* other statuses or of other offers are never included.
C30_ConflictTimesOfOffer ==
  IsAvail =>
    /\ Len(ret.conflicts) = Cardinality(ConflictLeasesOf(ret))
    /\ \A l \in ConflictLeasesOf(ret) :
         Cardinality({i \in 1..Len(ret.conflicts) :
                        /\ ret.conflicts[i].start_time = l.start_time
                        /\ ret.conflicts[i].end_time = l.end_time})
           = Cardinality({m \in ConflictLeasesOf(ret) :
                            /\ m.start_time = l.start_time
                            /\ m.end_time = l.end_time})
    /\ \A i, j \in 1..Len(ret.conflicts) :
         i < j => ret.conflicts[i].start_time <= ret.conflicts[j].start_time

\* C30 witness: the offer has two leases in the list, the later stored
\* first, next to a cancelled lease of the offer and a lease of another
\* origin that are left out.
C30_Witness ==
  /\ IsAvail
  /\ Len(ret.conflicts) = 2
  /\ ret.conflicts[1].start_time < ret.conflicts[2].start_time
  /\ \E l \in leases, m \in leases :
       /\ l.offer_uuid = ret.offer.uuid /\ l.status = CREATED
       /\ m.offer_uuid # ret.offer.uuid /\ m.status = ACTIVE
       /\ l.uuid < m.uuid
       /\ l.start_time = ret.conflicts[2].start_time
       /\ l.end_time = ret.conflicts[2].end_time

\* ------------------------------------------------------- db api: the lists
\* The time filter with every call taken for a 'within' one.
time_filter_within_only(start, end, time_filter_type, r) ==
  \/ start = NoTime
  \/ end = NoTime
  \/ (start <= r.start_time /\ end >= r.start_time)
  \/ (start <= r.end_time /\ end >= r.end_time)

\* The time filter of offer_get_all and lease_get_all: applied when both
\* start and end are given; with 'within' the rows that start or end in the
\* window, else the rows that contain the window.
time_filter(start, end, time_filter_type, r) ==
  IF start = NoTime \/ end = NoTime THEN TRUE
  ELSE IF time_filter_type = "within"
    THEN \/ (start <= r.start_time /\ end >= r.start_time)
         \/ (start <= r.end_time /\ end >= r.end_time)
  ELSE start >= r.start_time /\ end <= r.end_time

\* offer_get_all, called with the time filters and the availability filters.
offer_get_all(filters) ==
  {o \in offers :
     /\ time_filter(filters.start_time, filters.end_time,
                    filters.time_filter_type, o)
     /\ (filters.available_start_time # NoTime
           /\ filters.available_end_time # NoTime)
          => offer_verify_availability(o, filters.available_start_time,
                                       filters.available_end_time) = "ok"}

\* lease_get_all, called with the time filters and the status filter, the
\* empty list for no status filter.
lease_get_all(filters) ==
  {l \in leases :
     /\ filters.status # {} => l.status \in filters.status
     /\ time_filter(filters.start_time, filters.end_time,
                    filters.time_filter_type, l)}

\* The windows a list is asked for lie in the middle of Time, so that stored
\* rows can start before them and end after them.
ListIntervals ==
  {w \in Intervals : w.start_time >= 1 /\ w.end_time < MaxTime}

\* The time filters a list is called with: none, or a window.
ListWindows ==
  ListIntervals \cup {[start_time |-> NoTime, end_time |-> NoTime]}

OfferFilters ==
  {[start_time |-> w.start_time, end_time |-> w.end_time,
    time_filter_type |-> t,
    available_start_time |-> NoTime, available_end_time |-> NoTime] :
     w \in ListWindows, t \in {None, "within"}}
    \cup {[start_time |-> NoTime, end_time |-> NoTime,
           time_filter_type |-> None,
           available_start_time |-> 0, available_end_time |-> 1]}

LeaseFilters ==
  {[start_time |-> w.start_time, end_time |-> w.end_time,
    time_filter_type |-> t, status |-> st] :
     w \in ListIntervals, t \in {None, "within"},
     st \in {{}, {CREATED, ACTIVE}}}

\* Rows stored through the db api on one resource, and the three lists.
NextList ==
  \/ /\ Cardinality(offers) < MaxOffers
     /\ \E w \in Windows :
          offer_create(OfferRow(generate_uuid(offers, OfferUuids), "owner1",
                                ApiResource[1], ApiResource[2],
                                w.start_time, w.end_time, AVAILABLE))
  \/ /\ leases = {}
     /\ \E w \in Windows, st \in {CREATED, CANCELLED} :
          lease_create(LeaseRow(generate_uuid(leases, LeaseUuids), NoUuid,
                                "owner2", "owner1",
                                ApiResource[1], ApiResource[2],
                                w.start_time, w.end_time, st))
  \/ /\ owner_changes = {}
     /\ \E w \in Windows, st \in {CREATED, CANCELLED} :
          owner_change_create(
            OwnerChangeRow(generate_uuid(owner_changes, OwnerChangeUuids),
                           "owner1", "owner2", ApiResource[1], ApiResource[2],
                           w.start_time, w.end_time, st))
  \/ \E filters \in OfferFilters :
       /\ ret' = [op |-> "offer_get_all", filters |-> filters,
                  result |-> offer_get_all(filters)]
       /\ UNCHANGED <<offers, leases, owner_changes, procs, locks>>
  \/ \E filters \in LeaseFilters :
       /\ ret' = [op |-> "lease_get_all", filters |-> filters,
                  result |-> lease_get_all(filters)]
       /\ UNCHANGED <<offers, leases, owner_changes, procs, locks>>
  \/ \E w \in ListIntervals :
       /\ ret' = [op |-> "owner_change_get_all",
                  filters |-> [start_time |-> w.start_time,
                               end_time |-> w.end_time,
                               time_filter_type |-> None,
                               status |-> {CREATED, ACTIVE}],
                  result |-> owner_change_get_all(ApiResource[1],
                                                  ApiResource[2],
                                                  w.start_time, w.end_time,
                                                  {CREATED, ACTIVE})]
       /\ UNCHANGED <<offers, leases, owner_changes, procs, locks>>

SpecList == InitCheck /\ [][NextList]_vars

\* The table a list call reads.
ListTable(call) ==
  IF call.op = "offer_get_all" THEN offers
  ELSE IF call.op = "lease_get_all" THEN leases
  ELSE owner_changes

\* The rows of the table that pass the filters of the call other than the
\* time filters.
OtherFilters(call) ==
  {r \in ListTable(call) :
     /\ ("status" \in DOMAIN call.filters /\ call.filters.status # {})
          => r.status \in call.filters.status
     /\ ("available_start_time" \in DOMAIN call.filters
           /\ call.filters.available_start_time # NoTime)
          => /\ r.start_time <= call.filters.available_start_time
             /\ call.filters.available_end_time <= r.end_time}

\* The call has a time window as its filter.
HasWindow(call) ==
  call.filters.start_time # NoTime /\ call.filters.end_time # NoTime

\* The row and the window of the call have an instant in common, the bounds
\* of both included.
OverlapsWindow(call, r) ==
  r.start_time <= call.filters.end_time
    /\ call.filters.start_time <= r.end_time

\* --------------------------------------------------------------- claim C31
\* C31 as stated: with a start_time and end_time filter and time_filter_type
\* 'within', offer_get_all and lease_get_all return every stored reservation
\* whose interval has any overlap with the filter window (and none that has
\* no overlap), including reservations that start before the window and end
\* after it.
C31_WithinIsAnyOverlap ==
  (/\ ret.op \in {"offer_get_all", "lease_get_all"}
   /\ HasWindow(ret)
   /\ ret.filters.time_filter_type = "within") =>
    ret.result = {r \in OtherFilters(ret) : OverlapsWindow(ret, r)}

\* --------------------------------------------------------------- claim C32
\* C32: with a start_time and end_time filter and no time_filter_type,
\* offer_get_all, lease_get_all and owner_change_get_all return exactly the
\* reservations (matching the other filters) whose interval contains the
\* whole filter window: reservation.start_time <= start and
\* end <= reservation.end_time.
C32_DefaultIsContainsWindow ==
  (/\ ret.op \in {"offer_get_all", "lease_get_all", "owner_change_get_all"}
   /\ HasWindow(ret)
   /\ ret.filters.time_filter_type = None) =>
    ret.result = {r \in OtherFilters(ret) :
                    /\ r.start_time <= ret.filters.start_time
                    /\ ret.filters.end_time <= r.end_time}

\* C32 witness: offer_get_all without a type returned the one offer that
\* contains the window and left out an offer that only reaches one of its
\* bounds.
C32_Witness ==
  /\ ret.op = "offer_get_all" /\ HasWindow(ret)
  /\ ret.filters.time_filter_type = None
  /\ ret.filters.start_time < ret.filters.end_time
  /\ Cardinality(ret.result) = 1
  /\ \E o \in offers \ ret.result : OverlapsWindow(ret, o)

\* --------------------------------------------------------------- claim C33
\* The reservations that hold the resource of the row u next to it: the
\* other available offers and created or active leases of its resource,
\* apart from the leases claimed from u and the offer u was claimed from.
Neighbours(u) ==
  {o \in offers : /\ o.status = AVAILABLE /\ SameResource(o, u)
                  /\ o.uuid # u.uuid
                  /\ ("offer_uuid" \in DOMAIN u => o.uuid # u.offer_uuid)}
    \cup {l \in leases : /\ l.status \in {CREATED, ACTIVE}
                         /\ SameResource(l, u)
                         /\ ("offer_uuid" \in DOMAIN u => l.uuid # u.uuid)
                         /\ ("offer_uuid" \notin DOMAIN u
                               => l.offer_uuid # u.uuid)}

\* C33 as stated: updating an offer's or a lease's start_time or end_time
\* keeps the per-resource non-overlap invariant: after offer_update or
\* lease_update succeeds, the updated reservation's new interval overlaps no
\* other AVAILABLE offer and no other CREATED/ACTIVE lease on the same
\* resource.
C33_UpdateKeepsNonOverlap ==
  (/\ ret.op \in {"offer_update", "lease_update"}
   /\ ret.result = "ok"
   /\ (ret.values.start_time # NoTime \/ ret.values.end_time # NoTime)) =>
    \A u \in (IF ret.op = "offer_update" THEN offer_get_by_uuid(ret.uuid)
              ELSE lease_get_by_uuid(ret.uuid)) :
      \A b \in Neighbours(u) : ~Intersects(u, b)

\* --------------------------------------------------------------- claim C34
\* The created and active leases of the offer of the call are pairwise
\* apart.
LeasesApart(call) ==
  \A l \in SiblingLeases(call.offer), m \in SiblingLeases(call.offer) :
    l # m => ~Intersects(l, m)

\* The window lies inside one gap of the list the call returned.
InOneGap(call, w) ==
  \E i \in 1..Len(call.result) :
    /\ call.result[i].start_time <= w.start_time
    /\ w.end_time <= call.result[i].end_time

\* C34: the availability calculator and the offer-level check agree: for an
\* AVAILABLE offer whose CREATED/ACTIVE leases are pairwise non-overlapping,
\* a window [start, end) with start < end passes offer_verify_availability
\* if and only if it lies inside a single gap returned by get_availabilities
\* for that offer.
C34_CalculatorAgreesWithCheck ==
  (/\ IsAvail
   /\ ret.offer.status = AVAILABLE
   /\ LeasesApart(ret)) =>
    \A w \in AvailWindows :
      offer_verify_availability(ret.offer, w.start_time, w.end_time) = "ok"
        <=> InOneGap(ret, w)

\* C34 witness: the offer has two gaps with a lease between them, and a
\* window that reaches from one gap into the other.
C34_Witness ==
  /\ IsAvail /\ ret.offer.status = AVAILABLE /\ LeasesApart(ret)
  /\ Len(ret.result) = 2
  /\ \E w \in AvailWindows :
       /\ w.start_time = ret.result[1].start_time
       /\ w.end_time = ret.result[2].end_time
       /\ ~InOneGap(ret, w)
       /\ offer_verify_availability(ret.offer, w.start_time, w.end_time)
            # "ok"

\* --------------------------------------------------------------- claim C35
\* C35: for any stored set of owner changes, any resource, any window and
\* any default admin project, resource_check_admin returns true for at most
\* one candidate project: two different projects are never both authorized
\* for the same resource and window.
C35_AtMostOneAdmin ==
  (IsAdmin /\ ret.result = TRUE) =>
    \A project_id \in Projects \ {ret.project_id} :
      ~resource_check_admin(ret.resource_type, ret.resource_uuid,
                            ret.start_time, ret.end_time,
                            ret.default_admin_project_id, project_id)

\* C35 witness: the to_owner of the change around the window was accepted,
\* and the default administrator is another project.
C35_Witness ==
  /\ IsAdmin /\ ret.result = TRUE
  /\ ret.project_id # ret.default_admin_project_id
  /\ Cardinality(ChangesAround) = 1
  /\ \E c \in ChangesAround :
       /\ c.to_owner_id = ret.project_id
       /\ c.from_owner_id = ret.default_admin_project_id

\* --------------------------------------------------------------- claim C36
\* Exactly one created or active change of the resource covers the whole
\* window, and no other created or active change of the resource overlaps
\* that change.
OneCoveringChange ==
  /\ Cardinality(ChangesAround) = 1
  /\ \A c \in ChangesAround, d \in AdminChanges \ ChangesAround :
       ~Intersects(c, d)

\* C36 as stated: whenever exactly one CREATED/ACTIVE owner change on the
\* resource covers the whole requested window (a window equal to the
\* change's own interval included) and no other owner change overlaps it,
\* resource_check_admin returns true for that change's to_owner_id.
C36_Original ==
  (IsAdmin /\ OneCoveringChange) =>
    \A c \in ChangesAround :
      ret.project_id = c.to_owner_id => ret.result = TRUE

\* C36 amended: whenever exactly one CREATED/ACTIVE owner change on the
\* resource covers the whole requested window, the window is not the whole
\* interval of that change, and no other owner change overlaps the change,
\* resource_check_admin returns true for that change's to_owner_id.
C36_CoveringChangeAuthorizes ==
  (IsAdmin /\ OneCoveringChange) =>
    \A c \in ChangesAround :
      (/\ ret.project_id = c.to_owner_id
       /\ ~(ret.start_time = c.start_time /\ ret.end_time = c.end_time))
        => ret.result = TRUE

\* C36 witness: the window ends with the change that covers it and starts
\* after it, a second change of the resource follows that change, and the
\* to_owner was accepted.
C36_Witness ==
  /\ IsAdmin /\ OneCoveringChange /\ ret.result = TRUE
  /\ Cardinality(AdminChanges) = 2
  /\ \E c \in ChangesAround :
       /\ ret.project_id = c.to_owner_id
       /\ c.start_time < ret.start_time /\ ret.start_time < ret.end_time
       /\ ret.end_time = c.end_time

\* --------------------------------------------------------------- claim C37
\* The call asks, for an offer or a lease, about a non-empty window inside
\* the interval of a stored offer of the resource that is not AVAILABLE, and
\* no created or active lease of the resource overlaps the window.
InsideFreedOffer ==
  /\ IsRva /\ ~ret.is_owner_change
  /\ ret.start_time < ret.end_time
  /\ \E o \in offers :
       /\ OnResource(o, ret.resource_type, ret.resource_uuid)
       /\ o.status # AVAILABLE
       /\ o.start_time <= ret.start_time /\ ret.end_time <= o.end_time
  /\ \A l \in BlockingLeases(ret.resource_type, ret.resource_uuid) :
       ~Overlaps(ret.start_time, ret.end_time, l)

\* C37 as stated: cancelling an offer frees its window: once an offer's
\* status is no longer AVAILABLE (and no CREATED/ACTIVE lease on the resource
\* overlaps), resource_verify_availability for any window inside the
\* cancelled offer's interval on that resource returns without conflict, so
\* a new offer for the same window can be created.
C37_Original ==
  InsideFreedOffer => ret.result = "ok"

\* C37 amended: once an offer's status is no longer AVAILABLE, and no other
\* AVAILABLE offer and no CREATED/ACTIVE lease on the resource overlaps the
\* window, resource_verify_availability for any window inside the cancelled
\* offer's interval on that resource returns without conflict.
C37_CancelledOfferFreesWindow ==
  (/\ InsideFreedOffer
   /\ \A o \in BlockingOffers(ret.resource_type, ret.resource_uuid) :
        ~Overlaps(ret.start_time, ret.end_time, o)) =>
    ret.result = "ok"

\* C37 witness: the window is the interval of a cancelled offer, an
\* available offer of the resource ends where it starts, and the call
\* returned without conflict.
C37_Witness ==
  /\ InsideFreedOffer /\ ret.result = "ok"
  /\ \E o \in offers, a \in offers :
       /\ o.status = CANCELLED /\ a.status = AVAILABLE
       /\ OnResource(o, ret.resource_type, ret.resource_uuid)
       /\ OnResource(a, ret.resource_type, ret.resource_uuid)
       /\ o.start_time = ret.start_time /\ o.end_time = ret.end_time
       /\ a.end_time = ret.start_time

\* --------------------------------------------------------------- claim C38
\* The NotFound error of the entity an update call is about.
UpdateNotFoundOf(call) ==
  IF call.op = "offer_update" THEN "OfferNotFound"
  ELSE IF call.op = "lease_update" THEN "LeaseNotFound"
  ELSE "OwnerChangeNotFound"

\* C38: offer_update, lease_update and owner_change_update called with a
\* uuid that matches no stored row fail with the entity's NotFound error and
\* leave the store unchanged, whatever values are supplied.
C38_UpdateNotFound ==
  [][(/\ IsUpdate(ret')
      /\ \A r \in TableOf(ret', offers, leases, owner_changes) :
           r.uuid # ret'.uuid) =>
       /\ ret'.result = UpdateNotFoundOf(ret')
       /\ offers' = offers /\ leases' = leases
       /\ owner_changes' = owner_changes]_vars

====
